---- MODULE Spec2Model ----
(***************************************************************************)
(* Observability-and-accounting pipeline of the Docker agent service:      *)
(*   services/token_calculator.py   TokenCalculator   (pricing)            *)
(*   services/database.py           DatabaseManager   (persistent store)   *)
(*   core/tracing.py                TracingManager    (trace lifecycle)    *)
(*   services/framework_manager.py  FrameworkManager  (registry/dispatch)  *)
(*   services/agent_service.py      AgentService      (execute_query)      *)
(*                                                                         *)
(* Three specifications share this module:                                 *)
(*   Spec          threads calling execute_query / start_trace / add_step  *)
(*                 / end_trace / save_framework_health / cleanup_old_data  *)
(*                 against one store, interleaved at store-call grain;     *)
(*   SpecPrice     calculate_tokens_and_cost applied to bounded inputs;    *)
(*   SpecRegistry  FrameworkManager initialisation followed by dispatches. *)
(*                                                                         *)
(* Money is kept exact.  A rate of the pricing table is held in            *)
(* micro-dollars per 1000 tokens (0.00015 $ -> 150), an unrounded cost     *)
(* tokens/1000 * rate is held in nano-dollars (tokens * rate), and a cost  *)
(* rounded to 6 decimal places is a whole number of micro-dollars.         *)
(***************************************************************************)
EXTENDS Integers, Sequences, FiniteSets, TLC

VARIABLES
    \* ---- Spec: store, metrics registry, clock and threads
    traces,        \* table traces: trace_id -> row, or NoRow
    metrics,       \* table metrics: sequence of rows in insertion order
    health,        \* table framework_health: sequence of rows
    lock,          \* DatabaseManager.lock: 0 when free, else the holding thread
    gauge,         \* ACTIVE_REQUESTS
    prom,          \* the labelled Prometheus counters and the duration histogram
    now,           \* the clock read by time.time() / datetime.utcnow()
    nextId,        \* number of trace ids generated so far (uuid4 never repeats)
    th,            \* per thread: program position and locals
    calls,         \* top-level calls issued so far
    queries,       \* execute_query calls among them
    faults,        \* storage errors injected so far
    \* ---- SpecPrice
    priceIn,       \* arguments of calculate_tokens_and_cost
    priceOut,      \* its result, or NoPrice before the call
    pricingOut,    \* the result of get_model_pricing, or NoPrice before the call
    extractOut,    \* the result of extract_tokens_from_response, or <<>> before the call
    \* ---- SpecRegistry
    frameworks,    \* FrameworkManager.frameworks: name -> entry, or NoEntry
    loadPos,       \* index of the next framework_configs item to load
    loaderOut,     \* per framework name, what its loader does
    dispatched,    \* result of the last FrameworkManager.execute_query
    adapterCalls,  \* how many times an adapter's run() was entered
    healthOut,     \* the last health_check: its probes and its result
    \* ---- SpecRead
    readOut,       \* the last read operation of the store and what it returned
    \* ---- SpecUpsert
    traceRows,     \* the traces table, row by row in rowid order
    upsertIn,      \* the last save_trace call: its argument and how it ended
    saves          \* save_trace calls made so far

storeVars == <<traces, metrics, health, lock, gauge, prom, now, nextId, th, calls, queries, faults>>
priceVars == <<priceIn, priceOut, pricingOut, extractOut>>
regVars   == <<frameworks, loadPos, loaderOut, dispatched, adapterCalls, healthOut>>
readVars  == <<readOut>>
upsertVars == <<traceRows, upsertIn, saves>>
vars      == <<storeVars, priceVars, regVars, readVars, upsertVars>>

-----------------------------------------------------------------------------
(* Bounds of the model *)

\* largest token count handed to calculate_tokens_and_cost as an "actual" count
MaxTokens == 6
\* top-level calls issued over all threads in one behaviour of Spec
MaxCalls == 3
\* execute_query calls among them
MaxQueries == 1
\* trace ids that can be generated in one behaviour of Spec
MaxTraces == 2
\* last value of the clock
MaxClock == 2
\* storage errors injected in one behaviour of Spec
MaxFaults == 1
\* how many items of framework_configs the registry model loads
MaxFrameworks == 3
\* dispatches that reach an adapter in one behaviour of SpecRegistry
MaxDispatch == 2

-----------------------------------------------------------------------------
(* Texts.  A text is a sequence of items [k, n]; k names what the item is   *)
(* and n its size or value:                                                 *)
(*   "w"  a run of n non-blank characters        "ws" one blank            *)
(*   "nl" one newline                                                       *)
(*   "Here" "answer:" "(answer):" "Response:" "Output:"  the lead-in words  *)
(*        that _clean_response strips                                       *)
(*   "input" "prompt" "completion" "output" "total"  an in-band usage       *)
(*        report such as "input tokens: 37", n being the number             *)

W(n)        == [k |-> "w", n |-> n]
SP          == [k |-> "ws", n |-> 1]
NL          == [k |-> "nl", n |-> 1]
Lead(word)  == [k |-> word, n |-> 0]
Rep(kind, n) == [k |-> kind, n |-> n]

\* Python None for an Optional[int] / a NULL numeric column
None == -1
\* Python None / SQL NULL for a text column
NullText == <<[k |-> "NULL", n |-> 0]>>
\* Python None / SQL NULL for a string column
NoError == "None"

IsSpace(i) == i.k \in {"ws", "nl"}
ReportKinds == {"input", "prompt", "completion", "output", "total"}

Digits(n) == IF n < 10 THEN 1 ELSE IF n < 100 THEN 2 ELSE 3

\* len() of the characters an item stands for
ItemLen(i) ==
    CASE i.k = "w"          -> i.n
      [] i.k = "ws"         -> 1
      [] i.k = "nl"         -> 1
      [] i.k = "Here"       -> 4
      [] i.k = "answer:"    -> 7
      [] i.k = "(answer):"  -> 9
      [] i.k = "Response:"  -> 9
      [] i.k = "Output:"    -> 7
      [] i.k = "input"      -> 14 + Digits(i.n)
      [] i.k = "prompt"     -> 15 + Digits(i.n)
      [] i.k = "completion" -> 19 + Digits(i.n)
      [] i.k = "output"     -> 15 + Digits(i.n)
      [] i.k = "total"      -> 14 + Digits(i.n)
      [] OTHER              -> 0

RECURSIVE TextLen(_)
TextLen(t) == IF t = <<>> THEN 0 ELSE ItemLen(Head(t)) + TextLen(Tail(t))

RECURSIVE LStrip(_)
LStrip(t) == IF t # <<>> /\ IsSpace(Head(t)) THEN LStrip(Tail(t)) ELSE t

RECURSIVE RStrip(_)
RStrip(t) ==
    IF t # <<>> /\ IsSpace(t[Len(t)]) THEN RStrip(SubSeq(t, 1, Len(t) - 1)) ELSE t

\* str.strip()
Strip(t) == RStrip(LStrip(t))

\* re.sub(prefix, "", cleaned, flags=re.IGNORECASE) for one of prefixes_to_remove:
\* "^Here\s+" needs at least one blank after the word, the others "\s*" none
RemovePrefix(t, word) ==
    IF t = <<>> \/ Head(t).k # word THEN t
    ELSE IF word = "Here"
         THEN IF Len(t) >= 2 /\ IsSpace(t[2]) THEN LStrip(Tail(t)) ELSE t
         ELSE LStrip(Tail(t))

prefixes_to_remove == <<"Here", "answer:", "(answer):", "Response:", "Output:">>

RECURSIVE RemovePrefixes(_, _)
RemovePrefixes(t, ps) ==
    IF ps = <<>> THEN t ELSE RemovePrefixes(RemovePrefix(t, Head(ps)), Tail(ps))

\* length of the longest prefix of t made of blanks and newlines
RECURSIVE SpaceRun(_)
SpaceRun(t) == IF t # <<>> /\ IsSpace(Head(t)) THEN 1 + SpaceRun(Tail(t)) ELSE 0

\* re.sub(r'\n\s*\n\s*\n', '\n\n', cleaned): a match starts at a newline and,
\* \s* being greedy, runs to the last newline of the blank run when the run
\* holds three newlines or more from there
RECURSIVE CollapseNewlines(_)
CollapseNewlines(t) ==
    IF t = <<>> THEN t
    ELSE IF Head(t).k = "nl"
         THEN LET run  == SpaceRun(t)
                  nls  == {j \in 1..run : t[j].k = "nl"}
                  last == CHOOSE j \in nls : \A j2 \in nls : j2 <= j
              IN  IF Cardinality(nls) >= 3
                  THEN <<NL, NL>> \o CollapseNewlines(SubSeq(t, last + 1, Len(t)))
                  ELSE <<Head(t)>> \o CollapseNewlines(Tail(t))
         ELSE <<Head(t)>> \o CollapseNewlines(Tail(t))

\* the text "No response generated."
NoResponseText == <<W(2), SP, W(8), SP, W(10)>>

\* AgentService._clean_response
_clean_response(text) ==
    IF text = <<>> THEN NoResponseText
    ELSE LET cleaned == Strip(CollapseNewlines(RemovePrefixes(Strip(text), prefixes_to_remove)))
         IN  IF cleaned # <<>> THEN cleaned ELSE NoResponseText

-----------------------------------------------------------------------------
(* TokenCalculator *)

\* TokenCalculator.token_costs, in micro-dollars per 1000 tokens
token_costs ==
    ( "gpt-4o"                  :> [input |-> 5000,  output |-> 15000] ) @@
    ( "gpt-4o-mini"             :> [input |-> 150,   output |-> 600] ) @@
    ( "gpt-3.5-turbo"           :> [input |-> 1500,  output |-> 2000] ) @@
    ( "gpt-4"                   :> [input |-> 30000, output |-> 60000] ) @@
    ( "gpt-4-32k"               :> [input |-> 60000, output |-> 120000] ) @@
    ( "llama3-8b-8192"          :> [input |-> 500,   output |-> 800] ) @@
    ( "gemma2-9b-it"            :> [input |-> 200,   output |-> 200] ) @@
    ( "llama-3.3-70b-versatile" :> [input |-> 900,   output |-> 900] ) @@
    ( "gemini-2.0-flash"        :> [input |-> 750,   output |-> 3000] )

\* the keys of TokenCalculator.model_encodings
model_encodings == {"gpt-4o", "gpt-4o-mini", "gpt-3.5-turbo", "gpt-4", "gpt-4-32k"}

\* len(encoding.encode(text)) of the tiktoken library: one token per
\* non-blank item, and one token for a text of blanks only
EncodedLen(text) ==
    LET n == Cardinality({j \in 1..Len(text) : ~IsSpace(text[j])})
    IN  IF n = 0 THEN 1 ELSE n

Max(a, b) == IF a >= b THEN a ELSE b

\* TokenCalculator._estimate_tokens
_estimate_tokens(text) == Max(1, TextLen(text) \div 4)

\* TokenCalculator.count_tokens
count_tokens(text, model) ==
    IF text = <<>> THEN 0
    ELSE IF model \in model_encodings THEN EncodedLen(text)
         ELSE _estimate_tokens(text)

\* re.findall(pattern, response_text, re.IGNORECASE) for the pattern of one kind
FindAll(kind, text) == SelectSeq(text, LAMBDA i : i.k = kind)

\* the patterns of extract_tokens_from_response, in list order
patterns == <<"input", "prompt", "completion", "output", "total">>

\* the loop body of extract_tokens_from_response for one pattern:
\* acc is <<input_tokens, output_tokens>>
ExtractStep(acc, kind, text) ==
    LET matches == FindAll(kind, text)
    IN  IF matches = <<>> THEN acc
        ELSE IF kind \in {"input", "prompt"} THEN <<matches[1].n, acc[2]>>
        ELSE IF kind \in {"output", "completion"} THEN <<acc[1], matches[1].n>>
        ELSE acc

RECURSIVE ExtractLoop(_, _, _)
ExtractLoop(acc, ps, text) ==
    IF ps = <<>> THEN acc
    ELSE ExtractLoop(ExtractStep(acc, Head(ps), text), Tail(ps), text)

\* TokenCalculator.extract_tokens_from_response
extract_tokens_from_response(response_text) ==
    ExtractLoop(<<None, None>>, patterns, response_text)

\* round(x, 6) of a cost x given in nano-dollars, as micro-dollars
\* (Python rounds half to even)
Round6(nano) ==
    LET q == nano \div 1000
        r == nano % 1000
    IN  IF r > 500 THEN q + 1
        ELSE IF r < 500 THEN q
        ELSE IF q % 2 = 0 THEN q ELSE q + 1

\* TokenCalculator.get_model_pricing: dict.get(model, token_costs['gpt-4o-mini'])
get_model_pricing(model) ==
    IF model \in DOMAIN token_costs THEN token_costs[model] ELSE token_costs["gpt-4o-mini"]

\* the returned total_cost of calculate_tokens_and_cost, from the unrounded
\* components in nano-dollars
TotalCost(input_cost, output_cost) == Round6(input_cost + output_cost)

\* a variant of TotalTokens that leaves the output tokens out of the total
TotalTokensInputOnly(input_tokens, output_tokens) == input_tokens

\* the returned total_tokens of calculate_tokens_and_cost
TotalTokens(input_tokens, output_tokens) == input_tokens + output_tokens

\* a variant of ResolveTokens that tests the actual count for truth, so that an
\* actual count of 0 falls through to the counted tokens
ResolveTokensTruthy(actual_tokens, text, model) ==
    IF actual_tokens # None /\ actual_tokens # 0 THEN actual_tokens
    ELSE count_tokens(text, model)

\* one direction of calculate_tokens_and_cost:
\* "if actual_..._tokens is not None: ... else: count_tokens(...)"
ResolveTokens(actual_tokens, text, model) ==
    IF actual_tokens # None THEN actual_tokens ELSE count_tokens(text, model)

\* a variant of PricingOf whose default is the first row of the table, gpt-4o
PricingOfFirstRow(model) ==
    IF model \in DOMAIN token_costs THEN token_costs[model] ELSE token_costs["gpt-4o"]

\* the pricing lookup of calculate_tokens_and_cost:
\* self.token_costs.get(model, self.token_costs['gpt-4o-mini'])
PricingOf(model) ==
    IF model \in DOMAIN token_costs THEN token_costs[model] ELSE token_costs["gpt-4o-mini"]

\* TokenCalculator.calculate_tokens_and_cost
calculate_tokens_and_cost(query, response, model, actual_input_tokens, actual_output_tokens) ==
    LET input_tokens  == ResolveTokens(actual_input_tokens, query, model)
        output_tokens == ResolveTokens(actual_output_tokens, response, model)
        pricing       == PricingOf(model)
        input_cost    == input_tokens * pricing.input
        output_cost   == output_tokens * pricing.output
    IN  [ input_tokens  |-> input_tokens,
          output_tokens |-> output_tokens,
          total_tokens  |-> TotalTokens(input_tokens, output_tokens),
          input_cost    |-> Round6(input_cost),
          output_cost   |-> Round6(output_cost),
          total_cost    |-> TotalCost(input_cost, output_cost),
          model         |-> model,
          pricing       |-> pricing ]

-----------------------------------------------------------------------------
(* Inputs the specifications draw from *)

\* "list containers"
QueryList == <<W(4), SP, W(10)>>
\* "ps"
QueryShort == <<W(2)>>
\* "Response: docker ps\n\n\nResult"
ResponseLeadIn == <<Lead("Response:"), SP, W(6), SP, W(2), NL, NL, NL, W(6)>>
\* "done input tokens: 37 output tokens: 5"
ResponseUsage == <<W(4), SP, Rep("input", 37), SP, Rep("output", 5)>>
\* "prompt tokens: 2 input tokens: 4 total tokens: 9 ok"
ResponseMixed == <<Rep("prompt", 2), SP, Rep("input", 4), SP, Rep("total", 9), SP, W(2)>>
\* "   \n "
ResponseBlank == <<SP, SP, SP, NL, SP>>
\* "input tokens: 4 prompt tokens: 2 output tokens: 3 completion tokens: 1"
ResponseTwice == <<Rep("input", 4), SP, Rep("prompt", 2), SP,
                   Rep("output", 3), SP, Rep("completion", 1)>>

Queries   == {<<>>, QueryShort, QueryList}
Responses == {<<>>, ResponseLeadIn, ResponseUsage, ResponseMixed, ResponseBlank, ResponseTwice}
\* two models of the pricing table, one of them with a tiktoken encoding, and
\* one model name the table does not know
Models    == {"gemma2-9b-it", "gpt-4o-mini", "my-model"}

-----------------------------------------------------------------------------
(* SpecPrice: calculate_tokens_and_cost on bounded inputs *)

NoPrice == [input_tokens |-> None]

InitPriceIdle ==
    priceIn = <<>> /\ priceOut = NoPrice /\ pricingOut = NoPrice /\ extractOut = <<>>

InitPrice ==
    /\ priceIn \in [ query : Queries, response : Responses, model : Models,
                     actual_input_tokens  : {None} \cup 0..MaxTokens,
                     actual_output_tokens : {None} \cup 0..MaxTokens ]
    /\ priceOut = NoPrice
    /\ pricingOut = NoPrice
    /\ extractOut = <<>>

PriceCall ==
    /\ priceOut = NoPrice
    /\ priceOut' = calculate_tokens_and_cost(priceIn.query, priceIn.response, priceIn.model,
                       priceIn.actual_input_tokens, priceIn.actual_output_tokens)
    /\ UNCHANGED <<priceIn, pricingOut, extractOut, storeVars, regVars, readVars, upsertVars>>

\* a call of get_model_pricing(model)
PricingCall ==
    /\ pricingOut = NoPrice
    /\ pricingOut' = get_model_pricing(priceIn.model)
    /\ UNCHANGED <<priceIn, priceOut, extractOut, storeVars, regVars, readVars, upsertVars>>

\* a call of extract_tokens_from_response(response_text)
ExtractCall ==
    /\ extractOut = <<>>
    /\ extractOut' = extract_tokens_from_response(priceIn.response)
    /\ UNCHANGED <<priceIn, priceOut, pricingOut, storeVars, regVars, readVars, upsertVars>>

-----------------------------------------------------------------------------
(* FrameworkManager *)

\* the keys of framework_configs in their order in the source
AllFrameworkNames ==
    << "langgraph", "crewai", "autogen", "llamaindex", "openai", "dspy", "mem0",
       "vercel", "litellm", "bedrock", "neo4j", "guardrails", "agno", "cleanlab",
       "graphlit" >>

\* the first MaxFrameworks items of framework_configs; every item is enabled
framework_configs == SubSeq(AllFrameworkNames, 1, MaxFrameworks)

ConfiguredNames == {framework_configs[i] : i \in 1..Len(framework_configs)}

\* what importing the module, reading the class and constructing the agent do:
\* succeed, or raise with this text
LoaderOutcomes == {"ok", "No module named agents", "setup failed"}

\* names a caller may pass to get_framework / execute_query
DispatchNames == {"langgraph", "LangGraph", "CREWAI", "autogen", "nosuch"}

\* str.lower() on the names above
Lower(name) ==
    CASE name = "LangGraph" -> "langgraph"
      [] name = "CREWAI"    -> "crewai"
      [] OTHER              -> name

NoInstance == "None"
NoEntry == [status |-> "absent"]
NoDispatch == [status |-> "none"]

\* a variant of _load_framework without its except clause: a failing loader
\* stores no entry and the exception ends in the loop of _initialize_frameworks
_load_framework_unrecorded(fw, name, outcome) ==
    IF outcome = "ok"
    THEN (name :> [instance |-> name, status |-> "loaded", error |-> NoError]) @@ fw
    ELSE fw

\* FrameworkManager._load_framework: the entry stored for name when its
\* loader ends with outcome; both branches store one
_load_framework(fw, name, outcome) ==
    IF outcome = "ok"
    THEN (name :> [instance |-> name, status |-> "loaded", error |-> NoError]) @@ fw
    ELSE (name :> [instance |-> NoInstance, status |-> "failed", error |-> outcome]) @@ fw

\* dict.get(name) on self.frameworks
FrameworkEntry(fw, name) == IF name \in DOMAIN fw THEN fw[name] ELSE NoEntry

\* FrameworkManager.get_framework
get_framework(fw, name) ==
    LET framework == FrameworkEntry(fw, Lower(name))
    IN  IF framework # NoEntry /\ framework.status = "loaded"
        THEN framework.instance
        ELSE NoInstance

\* FrameworkManager.get_available_frameworks
get_available_frameworks(fw) ==
    [name \in DOMAIN fw |-> [status |-> fw[name].status, error |-> fw[name].error]]

\* a variant of DispatchOnRaise without the except clause: the exception of
\* framework.run leaves execute_query
DispatchReraises(framework_name, text, duration) ==
    [ answer |-> "Error with framework", status |-> "raised", duration |-> duration,
      framework |-> framework_name, error |-> text ]

\* what FrameworkManager.execute_query does with an exception of framework.run:
\* the except clause returns an error result
DispatchOnRaise(framework_name, text, duration) ==
    [ answer |-> "Error with framework", status |-> "error", duration |-> duration,
      framework |-> framework_name, error |-> text ]

\* FrameworkManager.execute_query; run is what framework.run(query) does when
\* it is called: [raises, text, duration]
execute_query(fw, framework_name, run) ==
    LET framework == get_framework(fw, framework_name)
    IN  IF framework = NoInstance
        THEN [ answer |-> "Framework not available", status |-> "error", duration |-> 0,
               framework |-> framework_name, error |-> NoError ]
        ELSE IF run.raises
             THEN DispatchOnRaise(framework_name, run.text, run.duration)
             ELSE [ answer |-> run.text, status |-> "success", duration |-> run.duration,
                    framework |-> framework_name, error |-> NoError ]

\* whether FrameworkManager.execute_query enters framework.run
CallsAdapter(fw, framework_name) == get_framework(fw, framework_name) # NoInstance

\* what framework.run(query) may do
Runs ==
    { [raises |-> FALSE, text |-> "docker ps", duration |-> 1],
      [raises |-> TRUE, text |-> "connection refused", duration |-> 0] }

\* what instance.run("docker version") may do: return, or raise with this text
ProbeOutcomes == {"ok", "daemon unreachable"}

\* a variant of ProbeOnRaise without the except clause of health_check
ProbeReraises(text) == [status |-> "raised", test_passed |-> FALSE, error |-> text]

\* the except clause of health_check: the entry for a probe that raised
ProbeOnRaise(text) == [status |-> "unhealthy", test_passed |-> FALSE, error |-> text]

\* the test "framework['status'] == 'loaded' and framework['instance']"
IsProbed(framework) == framework.status = "loaded" /\ framework.instance # NoInstance

\* how many times health_check calls run("docker version") on each framework:
\* once in the loop body of a loaded one
HealthProbes(fw) == [name \in DOMAIN fw |-> IF IsProbed(fw[name]) THEN 1 ELSE 0]

\* FrameworkManager.health_check; a loaded entry has no 'error' key, and
\* framework.get('error', 'Not loaded') reads the load error of a failed one
health_check(fw, probe) ==
    [ name \in DOMAIN fw |->
        IF IsProbed(fw[name])
        THEN IF probe[name] = "ok"
             THEN [status |-> "healthy", test_passed |-> TRUE]
             ELSE ProbeOnRaise(probe[name])
        ELSE [ status |-> "unhealthy", test_passed |-> FALSE,
               error |-> IF fw[name].error # NoError THEN fw[name].error
                         ELSE "Not loaded" ] ]

InitRegistryIdle ==
    /\ frameworks = <<>>
    /\ loadPos = 1
    /\ loaderOut = <<>>
    /\ dispatched = NoDispatch
    /\ adapterCalls = 0
    /\ healthOut = NoDispatch

InitRegistry ==
    /\ frameworks = <<>>
    /\ loadPos = 1
    /\ loaderOut \in [ConfiguredNames -> LoaderOutcomes]
    /\ dispatched = NoDispatch
    /\ adapterCalls = 0
    /\ healthOut = NoDispatch

\* one iteration of the loop of _initialize_frameworks
LoadNext ==
    /\ loadPos <= Len(framework_configs)
    /\ LET name == framework_configs[loadPos]
       IN  frameworks' = _load_framework(frameworks, name, loaderOut[name])
    /\ loadPos' = loadPos + 1
    /\ UNCHANGED <<loaderOut, dispatched, adapterCalls, healthOut, storeVars, priceVars, readVars, upsertVars>>

\* a call of FrameworkManager.execute_query once the manager is constructed
Dispatch ==
    /\ loadPos > Len(framework_configs)
    /\ adapterCalls < MaxDispatch
    /\ \E name \in DispatchNames, run \in Runs :
          /\ dispatched' = [ name |-> name, run |-> run,
                             called |-> CallsAdapter(frameworks, name),
                             res |-> execute_query(frameworks, name, run) ]
          /\ adapterCalls' = adapterCalls + (IF CallsAdapter(frameworks, name) THEN 1 ELSE 0)
    /\ UNCHANGED <<frameworks, loadPos, loaderOut, healthOut, storeVars, priceVars, readVars, upsertVars>>

\* a call of FrameworkManager.health_check once the manager is constructed;
\* probe says, for each name, what run("docker version") does if it is called
HealthCheck ==
    /\ loadPos > Len(framework_configs)
    /\ healthOut = NoDispatch
    /\ \E probe \in [ConfiguredNames -> ProbeOutcomes] :
          healthOut' = [ status |-> "returned", probe |-> probe,
                         probes |-> HealthProbes(frameworks),
                         res |-> health_check(frameworks, probe) ]
    /\ UNCHANGED <<frameworks, loadPos, loaderOut, dispatched, adapterCalls, storeVars, priceVars, readVars, upsertVars>>

-----------------------------------------------------------------------------
(* DatabaseManager: the tables and the statements run on them *)

Threads == {1, 2}
TraceIds == 1..MaxTraces
\* an id no start_trace ever generated
UnknownId == 0

\* TracingManager.session_id
SessionId == "session"

\* get_trace_by_id's None
NoRow == [trace_id |-> UnknownId]

\* dict.get(key, default)
Get(d, key, default) == IF key \in DOMAIN d THEN d[key] ELSE default

\* the INSERT INTO traces of save_trace; end_time is not in its column list
InsertTrace(trace_data, clock) ==
    [ trace_id       |-> trace_data.trace_id,
      session_id     |-> Get(trace_data, "session_id", "default"),
      timestamp      |-> Get(trace_data, "timestamp", clock),
      end_time       |-> None,
      status         |-> Get(trace_data, "status", "started"),
      framework      |-> Get(trace_data, "framework", "unknown"),
      model          |-> Get(trace_data, "model", "unknown"),
      vector_store   |-> Get(trace_data, "vector_store", "unknown"),
      query          |-> Get(trace_data, "query", <<>>),
      response       |-> Get(trace_data, "response", NullText),
      total_duration |-> Get(trace_data, "total_duration", None),
      input_tokens   |-> Get(trace_data, "input_tokens", 0),
      output_tokens  |-> Get(trace_data, "output_tokens", 0),
      total_tokens   |-> Get(trace_data, "total_tokens", 0),
      input_cost     |-> Get(trace_data, "input_cost", 0),
      output_cost    |-> Get(trace_data, "output_cost", 0),
      total_cost     |-> Get(trace_data, "total_cost", 0),
      error_message  |-> Get(trace_data, "error_message", NoError),
      request_data   |-> Get(trace_data, "request_data", <<>>),
      steps          |-> Get(trace_data, "steps", <<>>),
      metrics        |-> Get(trace_data, "metrics", <<>>) ]

\* the SET clause of the UPDATE statement of save_trace
SetColumns(row, trace_data) ==
    [ row EXCEPT
        !.end_time       = Get(trace_data, "end_time", None),
        !.status         = Get(trace_data, "status", "started"),
        !.response       = Get(trace_data, "response", NullText),
        !.total_duration = Get(trace_data, "total_duration", None),
        !.input_tokens   = Get(trace_data, "input_tokens", 0),
        !.output_tokens  = Get(trace_data, "output_tokens", 0),
        !.total_tokens   = Get(trace_data, "total_tokens", 0),
        !.input_cost     = Get(trace_data, "input_cost", 0),
        !.output_cost    = Get(trace_data, "output_cost", 0),
        !.total_cost     = Get(trace_data, "total_cost", 0),
        !.error_message  = Get(trace_data, "error_message", NoError),
        !.steps          = Get(trace_data, "steps", <<>>),
        !.metrics        = Get(trace_data, "metrics", <<>>) ]

\* a variant of UpdateTrace that leaves a row alone once it holds a terminal
\* status (first end wins)
UpdateTraceOnce(row, trace_data) ==
    IF row.status \in {"completed", "failed"} THEN row ELSE SetColumns(row, trace_data)

\* a variant of UpdateTrace that sets every column the INSERT statement sets
UpdateTraceWholeRow(row, trace_data) ==
    [ SetColumns(row, trace_data) EXCEPT
        !.session_id   = Get(trace_data, "session_id", "default"),
        !.timestamp    = Get(trace_data, "timestamp", row.timestamp),
        !.framework    = Get(trace_data, "framework", "unknown"),
        !.model        = Get(trace_data, "model", "unknown"),
        !.vector_store = Get(trace_data, "vector_store", "unknown"),
        !.query        = Get(trace_data, "query", <<>>),
        !.request_data = Get(trace_data, "request_data", <<>>) ]

\* a variant of UpdateTrace that merges instead of replacing: when the stored
\* row holds as many steps as the trace passed in, the last step of the trace
\* passed in is appended to the stored steps
UpdateTraceMerging(row, trace_data) ==
    LET new == SetColumns(row, trace_data)
    IN  IF new.steps # <<>> /\ Len(row.steps) >= Len(new.steps)
        THEN [new EXCEPT !.steps = Append(row.steps, new.steps[Len(new.steps)])]
        ELSE new

\* the UPDATE traces SET ... WHERE trace_id = ? of save_trace
UpdateTrace(row, trace_data) == SetColumns(row, trace_data)

\* a save_trace whose UPDATE has no WHERE clause: every stored row is written
SaveTraceEveryRow(table, trace_data, clock) ==
    LET id == trace_data.trace_id
    IN  IF table[id] # NoRow
        THEN [i \in DOMAIN table |->
                 IF table[i] # NoRow THEN UpdateTrace(table[i], trace_data) ELSE table[i]]
        ELSE [table EXCEPT ![id] = InsertTrace(trace_data, clock)]

\* DatabaseManager.save_trace when the statements and the commit succeed:
\* the table afterwards
save_trace(table, trace_data, clock) ==
    LET id == trace_data.trace_id
    IN  IF table[id] # NoRow
        THEN [table EXCEPT ![id] = UpdateTrace(@, trace_data)]
        ELSE [table EXCEPT ![id] = InsertTrace(trace_data, clock)]

\* a variant of SaveTraceEnds without the except clause of save_trace: a
\* storage error leaves save_trace as an exception
SaveTraceRaises(ok) == IF ok THEN "True" ELSE "raise"

\* how save_trace ends: True after the commit, and on a storage error the
\* except clause inside the with-lock block returns False
SaveTraceEnds(ok) == IF ok THEN "True" ELSE "False"

\* a variant of SaveMetricsEnds without the except clause of save_metrics
SaveMetricsRaises(ok) == IF ok THEN "True" ELSE "raise"

\* how save_metrics and save_framework_health end: True after the commit,
\* False from the except clause inside the with-lock block
SaveMetricsEnds(ok) == IF ok THEN "True" ELSE "False"
SaveHealthEnds(ok) == IF ok THEN "True" ELSE "False"

\* DatabaseManager.get_trace_by_id: dict(row) with the JSON columns parsed
\* (json.loads(json.dumps(x)) = x for the lists, dicts, numbers and strings
\* kept here), None when no row has the id or on a storage error
get_trace_by_id(table, trace_id, ok) ==
    IF ok /\ trace_id \in DOMAIN table THEN table[trace_id] ELSE NoRow

\* DatabaseManager.save_metrics when the INSERT and the commit succeed
save_metrics(table, metrics_data, clock) ==
    Append(table,
      [ timestamp     |-> Get(metrics_data, "timestamp", clock),
        trace_id      |-> Get(metrics_data, "trace_id", UnknownId),
        framework     |-> Get(metrics_data, "framework", "unknown"),
        model         |-> Get(metrics_data, "model", "unknown"),
        vector_store  |-> Get(metrics_data, "vector_store", "unknown"),
        input_tokens  |-> Get(metrics_data, "input_tokens", 0),
        output_tokens |-> Get(metrics_data, "output_tokens", 0),
        total_tokens  |-> Get(metrics_data, "total_tokens", 0),
        input_cost    |-> Get(metrics_data, "input_cost", 0),
        output_cost   |-> Get(metrics_data, "output_cost", 0),
        total_cost    |-> Get(metrics_data, "total_cost", 0),
        latency_ms    |-> Get(metrics_data, "latency_ms", 0),
        status        |-> Get(metrics_data, "status", "completed"),
        error_message |-> Get(metrics_data, "error_message", NoError) ])

\* DatabaseManager.save_framework_health when the INSERTs and the commit
\* succeed; health_data lists the items of the dict in order
RECURSIVE save_framework_health(_, _, _)
save_framework_health(table, health_data, clock) ==
    IF health_data = <<>> THEN table
    ELSE LET health_info == Head(health_data)
         IN  save_framework_health(
                 Append(table,
                   [ framework_name |-> health_info.name,
                     status         |-> Get(health_info, "status", "unknown"),
                     last_check     |-> clock,
                     error_message  |-> Get(health_info, "error", NoError),
                     test_passed    |-> Get(health_info, "test_passed", FALSE) ]),
                 Tail(health_data), clock)

\* a variant of CleanupTraces whose DELETE compares with <= : a row written at
\* the cutoff itself goes too
CleanupTracesInclusive(table, cutoff) ==
    [id \in DOMAIN table |->
        IF table[id] # NoRow /\ table[id].timestamp <= cutoff THEN NoRow ELSE table[id]]

\* the three DELETE statements of cleanup_old_data
CleanupTraces(table, cutoff) ==
    [id \in DOMAIN table |->
        IF table[id] # NoRow /\ table[id].timestamp < cutoff THEN NoRow ELSE table[id]]
CleanupMetrics(table, cutoff) == SelectSeq(table, LAMBDA r : ~(r.timestamp < cutoff))
CleanupHealth(table, cutoff) == SelectSeq(table, LAMBDA r : ~(r.last_check < cutoff))

\* cursor.rowcount summed over the three statements
CleanupCount(tr, ms, hs, cutoff) ==
    (Len(ms) - Len(CleanupMetrics(ms, cutoff)))
    + Cardinality({id \in DOMAIN tr : tr[id] # NoRow /\ tr[id].timestamp < cutoff})
    + (Len(hs) - Len(CleanupHealth(hs, cutoff)))

\* which of the store's writers take DatabaseManager.lock ("with self.lock:")
TakesLock(op) == op \in {"save_trace", "save_metrics", "save_framework_health"}

-----------------------------------------------------------------------------
(* DatabaseManager: the read operations *)

NoRead == [op |-> "none"]

InitReadIdle == readOut = NoRead

\* before any save_trace call of SpecUpsert
NoSave == [ok |-> TRUE, ret |-> "", trace_data |-> NoRow]
InitUpsertIdle == traceRows = <<>> /\ upsertIn = NoSave /\ saves = 0

\* the permutations of 1..n
Perms(n) == {f \in [1..n -> 1..n] : \A i, j \in 1..n : f[i] = f[j] => i = j}

\* ORDER BY <column> DESC: every order of rows with the column non-increasing
\* (SQL leaves the order of rows with equal values open)
OrderByDesc(rows, column) ==
    { [i \in 1..Len(rows) |-> rows[f[i]]] :
        f \in {g \in Perms(Len(rows)) :
                  \A i \in 1..(Len(rows) - 1) : rows[g[i]][column] >= rows[g[i + 1]][column]} }

\* LIMIT ?
Limit(rows, limit) == SubSeq(rows, 1, IF limit < Len(rows) THEN limit ELSE Len(rows))

\* SUM(column)
RECURSIVE SumColumn(_, _)
SumColumn(rows, column) ==
    IF rows = <<>> THEN 0 ELSE Head(rows)[column] + SumColumn(Tail(rows), column)

\* num / den rounded to the nearest integer, half to even, as round() does
RoundDiv(num, den) ==
    LET q == num \div den
        r == num % den
    IN  IF 2 * r > den THEN q + 1
        ELSE IF 2 * r < den THEN q
        ELSE IF q % 2 = 0 THEN q ELSE q + 1

\* a variant of get_traces without its try block: the storage error leaves it
get_traces_unguarded(table, limit, status, ok) ==
    IF ~ok THEN {[raised |-> "sqlite3.OperationalError"]}
    ELSE {Limit(q, limit) : q \in OrderByDesc(SelectSeq(table, LAMBDA r : r # NoRow), "timestamp")}

\* DatabaseManager.get_traces: the lists it may return; status "" is None
get_traces(table, limit, status, ok) ==
    IF ~ok THEN {<<>>}
    ELSE LET rows == SelectSeq(table, LAMBDA r :
                         r # NoRow /\ (status # "" => r.status = status))
         IN  {Limit(q, limit) : q \in OrderByDesc(rows, "timestamp")}

\* DatabaseManager.get_metrics_summary; a quotient is kept as <<numerator,
\* denominator>>, and the except clause returns the empty dict
get_metrics_summary(table, since, ok) ==
    IF ~ok THEN <<>>
    ELSE LET rows  == SelectSeq(table, LAMBDA r : r.timestamp >= since)
             total == Len(rows)
             good  == Len(SelectSeq(rows, LAMBDA r : r.status = "completed"))
         IN  [ total_requests      |-> total,
               successful_requests |-> good,
               failed_requests     |-> Len(SelectSeq(rows, LAMBDA r : r.status = "failed")),
               total_input_tokens  |-> SumColumn(rows, "input_tokens"),
               total_output_tokens |-> SumColumn(rows, "output_tokens"),
               total_tokens        |-> SumColumn(rows, "total_tokens"),
               total_input_cost    |-> SumColumn(rows, "input_cost"),
               total_output_cost   |-> SumColumn(rows, "output_cost"),
               total_cost          |-> SumColumn(rows, "total_cost"),
               avg_latency_ms      |-> IF total > 0
                                       THEN <<SumColumn(rows, "latency_ms"), total>>
                                       ELSE <<0, 1>>,
               success_rate        |-> IF total > 0 THEN <<good * 100, total>> ELSE <<0, 1>> ]

\* the result of get_time_series_data with no rows, also its except clause
EmptySeries ==
    [ labels |-> <<>>, request_counts |-> <<>>, input_tokens |-> <<>>,
      output_tokens |-> <<>>, total_tokens |-> <<>>, input_costs |-> <<>>,
      output_costs |-> <<>>, total_costs |-> <<>>, latencies |-> <<>> ]

\* the loop of get_time_series_data over the buckets in ascending order; one
\* clock value is one hour bucket; costs rounded to 4 decimals are counted
\* in 0.0001 dollars and latencies rounded to 2 decimals in 0.01 ms
RECURSIVE SeriesLoop(_, _, _)
SeriesLoop(acc, buckets, rows) ==
    IF buckets = {} THEN acc
    ELSE LET hour == CHOOSE b \in buckets : \A c \in buckets : b <= c
             grp  == SelectSeq(rows, LAMBDA r : r.timestamp = hour)
         IN  SeriesLoop(
               [ labels         |-> Append(acc.labels, hour),
                 request_counts |-> Append(acc.request_counts, Len(grp)),
                 input_tokens   |-> Append(acc.input_tokens, SumColumn(grp, "input_tokens")),
                 output_tokens  |-> Append(acc.output_tokens, SumColumn(grp, "output_tokens")),
                 total_tokens   |-> Append(acc.total_tokens, SumColumn(grp, "total_tokens")),
                 input_costs    |-> Append(acc.input_costs,
                                           RoundDiv(SumColumn(grp, "input_cost"), 100)),
                 output_costs   |-> Append(acc.output_costs,
                                           RoundDiv(SumColumn(grp, "output_cost"), 100)),
                 total_costs    |-> Append(acc.total_costs,
                                           RoundDiv(SumColumn(grp, "total_cost"), 100)),
                 latencies      |-> Append(acc.latencies,
                                           RoundDiv(SumColumn(grp, "latency_ms") * 100,
                                                    Len(grp))) ],
               buckets \ {hour}, rows)

\* DatabaseManager.get_time_series_data
get_time_series_data(table, since, ok) ==
    IF ~ok THEN EmptySeries
    ELSE LET rows == SelectSeq(table, LAMBDA r : r.timestamp >= since)
         IN  SeriesLoop(EmptySeries, {rows[i].timestamp : i \in 1..Len(rows)}, rows)

\* the columns get_recent_traces selects
RecentColumns(r) ==
    [ trace_id |-> r.trace_id, timestamp |-> r.timestamp, framework |-> r.framework,
      model |-> r.model, total_tokens |-> r.total_tokens, total_cost |-> r.total_cost,
      latency_ms |-> r.latency_ms, status |-> r.status ]

\* DatabaseManager.get_recent_traces: the lists it may return
get_recent_traces(table, limit, ok) ==
    IF ~ok THEN {<<>>}
    ELSE { [i \in 1..Len(Limit(q, limit)) |-> RecentColumns(q[i])] :
             q \in OrderByDesc(table, "timestamp") }

\* the dict get_framework_health_history builds from the ordered rows
HealthByFramework(rows) ==
    [ name \in {rows[i].framework_name : i \in 1..Len(rows)} |->
        LET own == SelectSeq(rows, LAMBDA r : r.framework_name = name)
        IN  [ i \in 1..Len(own) |->
                [ status |-> own[i].status, timestamp |-> own[i].last_check,
                  test_passed |-> own[i].test_passed, error |-> own[i].error_message ] ] ]

\* DatabaseManager.get_framework_health_history: the dicts it may return
get_framework_health_history(table, since, ok) ==
    IF ~ok THEN {<<>>}
    ELSE { HealthByFramework(q) :
             q \in OrderByDesc(SelectSeq(table, LAMBDA r : r.last_check >= since),
                               "last_check") }

-----------------------------------------------------------------------------
(* TracingManager *)

\* a variant of NewTrace that leaves the query of the request out of the trace
NewTraceWithoutQuery(trace_id, request_data, clock) ==
    [ trace_id     |-> trace_id,
      session_id   |-> SessionId,
      timestamp    |-> clock,
      request_data |-> request_data,
      status       |-> "started",
      steps        |-> <<>>,
      metrics      |-> [start_time |-> clock, tokens_used |-> 0, api_calls |-> 0],
      framework    |-> Get(request_data, "framework", "unknown"),
      model        |-> Get(request_data, "model", "unknown"),
      vector_store |-> Get(request_data, "vector_store", "unknown"),
      query        |-> <<>> ]

\* the dict start_trace builds
NewTrace(trace_id, request_data, clock) ==
    [ trace_id     |-> trace_id,
      session_id   |-> SessionId,
      timestamp    |-> clock,
      request_data |-> request_data,
      status       |-> "started",
      steps        |-> <<>>,
      metrics      |-> [start_time |-> clock, tokens_used |-> 0, api_calls |-> 0],
      framework    |-> Get(request_data, "framework", "unknown"),
      model        |-> Get(request_data, "model", "unknown"),
      vector_store |-> Get(request_data, "vector_store", "unknown"),
      query        |-> Get(request_data, "query", <<>>) ]

\* the step names add_step counts as api calls
ApiCallSteps == {"llm_call", "vector_search", "tool_execution"}

\* a variant of AddStepUpdate that puts the new step in front of the steps
\* loaded
AddStepUpdatePrepending(trace, step_name, step_data, clock) ==
    LET step == [ step_name |-> step_name,
                  timestamp |-> clock,
                  data      |-> step_data,
                  duration  |-> Get(step_data, "duration", 0) ]
    IN  [ trace EXCEPT !.steps = <<step>> \o @ ]

\* add_step between the read and the save: the trace with the step appended
\* and the running counters updated
AddStepUpdate(trace, step_name, step_data, clock) ==
    LET step == [ step_name |-> step_name,
                  timestamp |-> clock,
                  data      |-> step_data,
                  duration  |-> Get(step_data, "duration", 0) ]
        tokens == IF "tokens" \in DOMAIN step_data THEN step_data.tokens ELSE 0
        api    == IF step_name \in ApiCallSteps THEN 1 ELSE 0
    IN  [ trace EXCEPT
            !.steps = Append(@, step),
            !.metrics = [ @ EXCEPT !.tokens_used = @ + tokens, !.api_calls = @ + api ] ]

\* end_trace: the token_data it computes for the loaded trace and the response
EndTokenData(trace, response) ==
    LET actual == extract_tokens_from_response(response)
    IN  calculate_tokens_and_cost(trace.query, response, trace.model, actual[1], actual[2])

\* end_trace: trace.update({...})
EndUpdate(trace, status, response, error, clock) ==
    LET token_data == EndTokenData(trace, response)
    IN  [ trace EXCEPT
            !.status         = status,
            !.end_time       = clock,
            !.total_duration = clock - trace.metrics.start_time,
            !.response       = response,
            !.input_tokens   = token_data.input_tokens,
            !.output_tokens  = token_data.output_tokens,
            !.total_tokens   = token_data.total_tokens,
            !.input_cost     = token_data.input_cost,
            !.output_cost    = token_data.output_cost,
            !.total_cost     = token_data.total_cost,
            !.error_message  = error ]

\* end_trace: metrics_data, built from the updated trace after save_trace
MetricsData(trace, trace_id, status, error, clock) ==
    [ timestamp     |-> clock,
      trace_id      |-> trace_id,
      framework     |-> trace.framework,
      model         |-> trace.model,
      vector_store  |-> trace.vector_store,
      input_tokens  |-> trace.input_tokens,
      output_tokens |-> trace.output_tokens,
      total_tokens  |-> trace.total_tokens,
      input_cost    |-> trace.input_cost,
      output_cost   |-> trace.output_cost,
      total_cost    |-> trace.total_cost,
      latency_ms    |-> trace.total_duration * 1000,
      status        |-> status,
      error_message |-> error ]

\* Counter.labels(...).inc(n)
Inc(counter, labels, n) ==
    IF labels \in DOMAIN counter
    THEN [counter EXCEPT ![labels] = @ + n]
    ELSE (labels :> n) @@ counter

NoCounters ==
    [ REQUEST_COUNT |-> <<>>, REQUEST_DURATION |-> <<>>, ERROR_COUNT |-> <<>>,
      LLM_TOKEN_USAGE |-> <<>>, LLM_COST_TOTAL |-> <<>> ]

\* add_step: LLM_TOKEN_USAGE ... token_type='total', when step_data has 'tokens'
AddStepCounters(p, trace, step_data) ==
    IF "tokens" \in DOMAIN step_data
    THEN [ p EXCEPT !.LLM_TOKEN_USAGE =
             Inc(@, <<trace.framework, trace.model, "total">>, step_data.tokens) ]
    ELSE p

\* end_trace: the counters it updates after save_metrics; REQUEST_DURATION
\* keeps the number of observations
EndCounters(p, trace, status, error) ==
    [ p EXCEPT
        !.REQUEST_COUNT =
            Inc(@, <<trace.framework, trace.model, trace.vector_store, status>>, 1),
        !.REQUEST_DURATION =
            Inc(@, <<trace.framework, trace.model, trace.vector_store>>, 1),
        !.LLM_TOKEN_USAGE =
            Inc(Inc(@, <<trace.framework, trace.model, "input">>, trace.input_tokens),
                <<trace.framework, trace.model, "output">>, trace.output_tokens),
        !.LLM_COST_TOTAL =
            Inc(Inc(@, <<trace.framework, trace.model, "input">>, trace.input_cost),
                <<trace.framework, trace.model, "output">>, trace.output_cost),
        !.ERROR_COUNT =
            IF error # NoError
            THEN Inc(@, <<trace.framework, trace.model, "unknown">>, 1)
            ELSE @ ]

-----------------------------------------------------------------------------
(* AgentService.execute_query: what it computes between the calls it makes *)

\* the envelope of the success path (final_result)
SuccessEnvelope(request_data, trace_id, framework_name, cleaned_response, duration, token_data) ==
    [ answer        |-> cleaned_response,
      trace_id      |-> trace_id,
      framework     |-> framework_name,
      model         |-> Get(request_data, "model", "gpt-4o-mini"),
      vector_store  |-> Get(request_data, "vector_store", "None"),
      duration      |-> duration,
      input_tokens  |-> token_data.input_tokens,
      output_tokens |-> token_data.output_tokens,
      tokens_used   |-> token_data.total_tokens,
      input_cost    |-> token_data.input_cost,
      output_cost   |-> token_data.output_cost,
      total_cost    |-> token_data.total_cost,
      status        |-> "success" ]

\* a variant of FailureAnswer that returns the bare exception text
FailureAnswerBare(error_message) == <<Lead(error_message)>>

\* f"(cross mark) Error: {error_message}"
FailureAnswer(error_message) == <<Lead("Error:"), SP, Lead(error_message)>>

\* the token_data of the except clause: the query alone, no response
FailureTokenData(request_data) ==
    calculate_tokens_and_cost(Get(request_data, "query", <<>>), <<>>,
                              Get(request_data, "model", "gpt-4o-mini"), None, None)

\* the envelope the except clause returns
FailureEnvelope(request_data, trace_id, error_message, duration, token_data) ==
    [ answer        |-> FailureAnswer(error_message),
      trace_id      |-> trace_id,
      framework     |-> Get(request_data, "framework", "None"),
      model         |-> Get(request_data, "model", "gpt-4o-mini"),
      vector_store  |-> Get(request_data, "vector_store", "None"),
      duration      |-> duration,
      input_tokens  |-> token_data.input_tokens,
      output_tokens |-> 0,
      tokens_used   |-> token_data.input_tokens,
      input_cost    |-> token_data.input_cost,
      output_cost   |-> 0,
      total_cost    |-> token_data.input_cost,
      status        |-> "error",
      error         |-> error_message ]

\* a variant of EnvelopeStatus that copies an error status of the result into
\* the envelope
EnvelopeStatusOfResult(result) ==
    IF result.status = "error" THEN "error" ELSE "success"

\* the status execute_query gives the envelope once adapter.execute_query has
\* returned result: the result's own status is never read
EnvelopeStatus(result) == "success"

\* the token_data of the success path
SuccessTokenData(request_data, raw_response) ==
    LET actual == extract_tokens_from_response(raw_response)
    IN  calculate_tokens_and_cost(Get(request_data, "query", <<>>),
                                  _clean_response(raw_response),
                                  Get(request_data, "model", "gpt-4o-mini"),
                                  actual[1], actual[2])

-----------------------------------------------------------------------------
(* Spec: the threads *)

NoEnvelope == [status |-> "none"]

IdleThread ==
    [ pc |-> "idle", top |-> "none", ret |-> "idle",
      request_data |-> <<>>, id |-> UnknownId, trace |-> NoRow,
      step_name |-> "", step_data |-> <<>>,
      status |-> "", response |-> <<>>, error |-> NoError,
      metrics_data |-> <<>>, health_data |-> <<>>, cutoff |-> 0, deleted |-> 0,
      saved |-> "", adapter |-> "", result |-> [status |-> "none"],
      start_time |-> 0, duration |-> 0, token_data |-> NoPrice,
      threw |-> "none", env |-> NoEnvelope,
      \* the start_trace, add_step and end_trace calls made so far by the
      \* top-level call
      starts |-> 0, adds |-> 0, ends |-> 0 ]

Fresh(top) == [IdleThread EXCEPT !.top = top]

\* the requests a caller sends; the second has no 'model' key
Requests ==
    { [framework |-> "LangGraph", model |-> "gemma2-9b-it", vector_store |-> "faiss",
       query |-> QueryList],
      [framework |-> "nosuch", vector_store |-> "faiss", query |-> QueryShort] }

\* an argument that is no dict (None, a list, a string): it has no get()
NotADict == [not_a_dict |-> TRUE]
IsDict(request_data) == "not_a_dict" \notin DOMAIN request_data

\* the request_data a caller may hand to start_trace directly
StartArguments == Requests \cup {NotADict}

\* (step_name, step_data) of the add_step calls made from outside execute_query
StepCalls ==
    { [step_name |-> "llm_call", step_data |-> [tokens |-> 3]],
      [step_name |-> "note", step_data |-> [duration |-> 1]] }

\* (status, response, error) of the end_trace calls made from outside execute_query
EndCalls ==
    { [status |-> "completed", response |-> ResponseUsage, error |-> NoError],
      [status |-> "failed", response |-> <<>>, error |-> "boom"] }

\* what core.registry's get_framework does
LookupOutcomes == {"adapter", "None", "raise"}

\* what adapter.execute_query does: return a result dict, or raise
AdapterResults ==
    { [answer |-> ResponseLeadIn, status |-> "success"],
      [answer |-> ResponseUsage, status |-> "error"] }

\* the health map save_framework_health is given, in item order
HealthData ==
    << [name |-> "langgraph", status |-> "healthy", test_passed |-> TRUE],
       [name |-> "crewai", status |-> "unhealthy", test_passed |-> FALSE,
        error |-> "Not loaded"] >>

\* str.lower() on the framework names of Requests
LowerName(name) == IF name = "LangGraph" THEN "langgraph" ELSE name

\* storage errors still available to inject
Oks == IF faults < MaxFaults THEN BOOLEAN ELSE {TRUE}
Fault(ok) == faults' = faults + (IF ok THEN 0 ELSE 1)

KnownIds == 1..nextId

\* positions of a thread whose last call is over: it returned, or it ended
\* with an exception
Resting == {"idle", "raised"}

\* a call is handed to the first resting worker thread
CanCall(t) ==
    /\ th[t].pc \in Resting
    /\ calls < MaxCalls
    /\ \A t2 \in Threads : t2 < t => th[t2].pc \notin Resting

BeginStart(s, request_data, ret, id, clock) ==
    [ s EXCEPT !.pc = "st_lock", !.ret = ret, !.request_data = request_data, !.id = id,
               !.trace = NewTrace(id, request_data, clock), !.starts = @ + 1 ]

BeginAddStep(s, id, step_name, step_data, ret) ==
    [ s EXCEPT !.pc = "as_read", !.ret = ret, !.id = id,
               !.step_name = step_name, !.step_data = step_data, !.adds = @ + 1 ]

BeginEnd(s, id, status, response, error, ret) ==
    [ s EXCEPT !.pc = "en_read", !.ret = ret, !.id = id,
               !.status = status, !.response = response, !.error = error, !.ends = @ + 1 ]

InitStore ==
    /\ traces = [id \in TraceIds |-> NoRow]
    /\ metrics = <<>>
    /\ health = <<>>
    /\ lock = 0
    /\ gauge = 0
    /\ prom = NoCounters
    /\ now = 0
    /\ nextId = 0
    /\ th = [t \in Threads |-> IdleThread]
    /\ calls = 0
    /\ queries = 0
    /\ faults = 0

\* positions at which a thread waits for something slow: the next call, or the
\* adapter's answer
SlowPcs == Resting \cup {"eq_exec"}

\* time passes; the clock is coarse next to a store call, so it advances only
\* while every thread waits at a slow position
Tick ==
    /\ now < MaxClock
    /\ \A t \in Threads : th[t].pc \in SlowPcs
    /\ now' = now + 1
    /\ UNCHANGED <<traces, metrics, health, lock, gauge, prom, nextId, th, calls, queries, faults, priceVars, regVars, readVars, upsertVars>>

(* ---- the top-level calls ---- *)

\* execute_query takes two units of the call budget
CallExecuteQuery(t) ==
    /\ CanCall(t) /\ nextId < MaxTraces /\ queries < MaxQueries /\ calls + 2 <= MaxCalls
    /\ \E request_data \in Requests :
          th' = [th EXCEPT ![t] = BeginStart(Fresh("execute_query"), request_data,
                                             "eq_lookup", nextId + 1, now)]
    /\ nextId' = nextId + 1
    /\ calls' = calls + 2
    /\ queries' = queries + 1
    /\ UNCHANGED <<traces, metrics, health, lock, gauge, prom, now, faults, priceVars, regVars, readVars, upsertVars>>

\* start_trace(request_data): uuid4, then the trace dict is built with
\* request_data.get(...), outside any try block
CallStartTrace(t) ==
    /\ CanCall(t) /\ nextId < MaxTraces
    /\ \E request_data \in StartArguments :
          IF IsDict(request_data)
          THEN th' = [th EXCEPT ![t] = BeginStart(Fresh("start_trace"), request_data,
                                                  "idle", nextId + 1, now)]
          ELSE th' = [th EXCEPT ![t] = [Fresh("start_trace") EXCEPT
                                           !.pc = "raised", !.request_data = request_data,
                                           !.threw = "AttributeError"]]
    /\ nextId' = nextId + 1
    /\ calls' = calls + 1
    /\ UNCHANGED <<traces, metrics, health, lock, gauge, prom, now, queries, faults, priceVars, regVars, readVars, upsertVars>>

CallAddStep(t) ==
    /\ CanCall(t)
    /\ \E id \in KnownIds \cup {UnknownId}, c \in StepCalls :
          th' = [th EXCEPT ![t] = BeginAddStep(Fresh("add_step"), id, c.step_name,
                                               c.step_data, "idle")]
    /\ calls' = calls + 1
    /\ UNCHANGED <<traces, metrics, health, lock, gauge, prom, now, nextId, queries, faults, priceVars, regVars, readVars, upsertVars>>

CallEndTrace(t) ==
    /\ CanCall(t)
    /\ \E id \in KnownIds \cup {UnknownId}, c \in EndCalls :
          th' = [th EXCEPT ![t] = BeginEnd(Fresh("end_trace"), id, c.status, c.response,
                                           c.error, "idle")]
    /\ calls' = calls + 1
    /\ UNCHANGED <<traces, metrics, health, lock, gauge, prom, now, nextId, queries, faults, priceVars, regVars, readVars, upsertVars>>

CallSaveHealth(t) ==
    /\ CanCall(t)
    /\ th' = [th EXCEPT ![t] = [Fresh("save_framework_health") EXCEPT
                                   !.pc = "hl_lock", !.health_data = HealthData]]
    /\ calls' = calls + 1
    /\ UNCHANGED <<traces, metrics, health, lock, gauge, prom, now, nextId, queries, faults, priceVars, regVars, readVars, upsertVars>>

\* cleanup_old_data(days): the cutoff is computed, then the connection opened
CallCleanup(t) ==
    /\ CanCall(t)
    /\ \E days \in {0, 1} :
          th' = [th EXCEPT ![t] = [Fresh("cleanup_old_data") EXCEPT
                    !.pc = IF TakesLock("cleanup_old_data") THEN "cl_lock" ELSE "cl_run",
                    !.cutoff = now - days]]
    /\ calls' = calls + 1
    /\ UNCHANGED <<traces, metrics, health, lock, gauge, prom, now, nextId, queries, faults, priceVars, regVars, readVars, upsertVars>>

(* ---- DatabaseManager.lock ---- *)

LockPcs == {"st_lock", "as_lock", "en_lock", "en_mlock", "hl_lock", "cl_lock"}

\* the position inside the with-lock block that follows each acquisition
AfterLock(pc) ==
    CASE pc = "st_lock"  -> "st_write"
      [] pc = "as_lock"  -> "as_write"
      [] pc = "en_lock"  -> "en_write"
      [] pc = "en_mlock" -> "en_mwrite"
      [] pc = "hl_lock"  -> "hl_write"
      [] pc = "cl_lock"  -> "cl_run"

\* a with-block that would keep the lock when its body raised
LockKeptOnError(ok, t) == IF ok THEN 0 ELSE t

\* "with self.lock:" left: the lock is released when the block returns, and the
\* try inside the block catches a storage exception before the block is left
ReleaseLock(ok, t) == 0

\* "with self.lock:" entered; the call blocks while another thread holds it
Acquire(t) ==
    /\ th[t].pc \in LockPcs
    /\ lock = 0
    /\ lock' = t
    /\ th' = [th EXCEPT ![t].pc = AfterLock(@)]
    /\ UNCHANGED <<traces, metrics, health, gauge, prom, now, nextId, calls, queries, faults, priceVars, regVars, readVars, upsertVars>>

(* ---- start_trace ---- *)

\* save_trace inside the lock, then ACTIVE_REQUESTS.inc() and the return;
\* start_trace has no try block of its own
StartWrite(t) ==
    /\ th[t].pc = "st_write"
    /\ \E ok \in Oks :
          /\ Fault(ok)
          /\ lock' = ReleaseLock(ok, t)
          /\ traces' = IF ok THEN save_trace(traces, th[t].trace, now) ELSE traces
          /\ IF SaveTraceEnds(ok) = "raise"
             THEN /\ th' = [th EXCEPT ![t].pc = "raised", ![t].saved = "raise"]
                  /\ gauge' = gauge
             ELSE /\ th' = [th EXCEPT ![t].pc = th[t].ret, ![t].saved = SaveTraceEnds(ok)]
                  /\ gauge' = gauge + 1
    /\ UNCHANGED <<metrics, health, prom, now, nextId, calls, queries, priceVars, regVars, readVars, upsertVars>>

(* ---- add_step ---- *)

\* get_trace_by_id, then the step appended to the loaded copy
AddStepRead(t) ==
    /\ th[t].pc = "as_read"
    /\ \E ok \in Oks :
          /\ Fault(ok)
          /\ LET trace == get_trace_by_id(traces, th[t].id, ok)
             IN  IF trace = NoRow
                 THEN /\ th' = [th EXCEPT ![t].pc = th[t].ret, ![t].trace = NoRow]
                      /\ prom' = prom
                 ELSE /\ th' = [th EXCEPT ![t].pc = "as_lock",
                                   ![t].trace = AddStepUpdate(trace, th[t].step_name,
                                                              th[t].step_data, now)]
                      /\ prom' = AddStepCounters(prom, trace, th[t].step_data)
    /\ UNCHANGED <<traces, metrics, health, lock, gauge, now, nextId, calls, queries, priceVars, regVars, readVars, upsertVars>>

\* save_trace inside the lock; an exception would end in add_step's except clause
AddStepWrite(t) ==
    /\ th[t].pc = "as_write"
    /\ \E ok \in Oks :
          /\ Fault(ok)
          /\ lock' = ReleaseLock(ok, t)
          /\ traces' = IF ok THEN save_trace(traces, th[t].trace, now) ELSE traces
          /\ th' = [th EXCEPT ![t].pc = th[t].ret, ![t].saved = SaveTraceEnds(ok)]
    /\ UNCHANGED <<metrics, health, gauge, prom, now, nextId, calls, queries, priceVars, regVars, readVars, upsertVars>>

(* ---- end_trace ---- *)

\* get_trace_by_id, the duration, the token data and trace.update
EndRead(t) ==
    /\ th[t].pc = "en_read"
    /\ \E ok \in Oks :
          /\ Fault(ok)
          /\ LET trace == get_trace_by_id(traces, th[t].id, ok)
             IN  IF trace = NoRow
                 THEN th' = [th EXCEPT ![t].pc = th[t].ret, ![t].trace = NoRow]
                 ELSE th' = [th EXCEPT ![t].pc = "en_lock",
                                ![t].trace = EndUpdate(trace, th[t].status, th[t].response,
                                                       th[t].error, now)]
    /\ UNCHANGED <<traces, metrics, health, lock, gauge, prom, now, nextId, calls, queries, priceVars, regVars, readVars, upsertVars>>

\* save_trace inside the lock, then metrics_data is built; an exception would
\* end in end_trace's except clause
EndWrite(t) ==
    /\ th[t].pc = "en_write"
    /\ \E ok \in Oks :
          /\ Fault(ok)
          /\ lock' = ReleaseLock(ok, t)
          /\ traces' = IF ok THEN save_trace(traces, th[t].trace, now) ELSE traces
          /\ IF SaveTraceEnds(ok) = "raise"
             THEN th' = [th EXCEPT ![t].pc = th[t].ret, ![t].saved = "raise"]
             ELSE th' = [th EXCEPT ![t].pc = "en_mlock", ![t].saved = SaveTraceEnds(ok),
                            ![t].metrics_data = MetricsData(th[t].trace, th[t].id,
                                                    th[t].status, th[t].error, now)]
    /\ UNCHANGED <<metrics, health, gauge, prom, now, nextId, calls, queries, priceVars, regVars, readVars, upsertVars>>

\* save_metrics inside the lock, then the counters, ACTIVE_REQUESTS.dec()
\* and the return
EndMetricWrite(t) ==
    /\ th[t].pc = "en_mwrite"
    /\ \E ok \in Oks :
          /\ Fault(ok)
          /\ lock' = ReleaseLock(ok, t)
          /\ metrics' = IF ok THEN save_metrics(metrics, th[t].metrics_data, now) ELSE metrics
          /\ th' = [th EXCEPT ![t].pc = th[t].ret, ![t].saved = SaveMetricsEnds(ok)]
    /\ prom' = EndCounters(prom, th[t].trace, th[t].status, th[t].error)
    /\ gauge' = gauge - 1
    /\ UNCHANGED <<traces, health, now, nextId, calls, queries, priceVars, regVars, readVars, upsertVars>>

(* ---- save_framework_health and cleanup_old_data ---- *)

HealthWrite(t) ==
    /\ th[t].pc = "hl_write"
    /\ \E ok \in Oks :
          /\ Fault(ok)
          /\ lock' = ReleaseLock(ok, t)
          /\ health' = IF ok THEN save_framework_health(health, th[t].health_data, now)
                       ELSE health
          /\ th' = [th EXCEPT ![t].pc = "idle", ![t].saved = SaveHealthEnds(ok)]
    /\ UNCHANGED <<traces, metrics, gauge, prom, now, nextId, calls, queries, priceVars, regVars, readVars, upsertVars>>

\* the three DELETEs and the commit on the connection cleanup_old_data opened
CleanupRun(t) ==
    /\ th[t].pc = "cl_run"
    /\ \E ok \in Oks :
          /\ Fault(ok)
          /\ LET cutoff == th[t].cutoff
             IN  IF ok
                 THEN /\ traces'  = CleanupTraces(traces, cutoff)
                      /\ metrics' = CleanupMetrics(metrics, cutoff)
                      /\ health'  = CleanupHealth(health, cutoff)
                      /\ th' = [th EXCEPT ![t].pc = "idle",
                                   ![t].deleted = CleanupCount(traces, metrics, health, cutoff)]
                 ELSE /\ UNCHANGED <<traces, metrics, health>>
                      /\ th' = [th EXCEPT ![t].pc = "idle", ![t].deleted = 0]
    /\ lock' = IF lock = t THEN 0 ELSE lock
    /\ UNCHANGED <<gauge, prom, now, nextId, calls, queries, priceVars, regVars, readVars, upsertVars>>

(* ---- execute_query ---- *)

\* start_time = time.time(), registry.get_framework(framework_name), and the
\* 'framework_initialization' step
EqLookup(t) ==
    /\ th[t].pc = "eq_lookup"
    /\ \E found \in LookupOutcomes :
          IF found = "raise"
          THEN th' = [th EXCEPT ![t].pc = "eq_except", ![t].start_time = now,
                         ![t].threw = "lookup", ![t].error = "registry failure"]
          ELSE th' = [th EXCEPT ![t] =
                         BeginAddStep([@ EXCEPT !.start_time = now, !.adapter = found],
                                      th[t].id, "framework_initialization",
                                      [framework |-> LowerName(Get(th[t].request_data,
                                                                   "framework", ""))],
                                      "eq_create")]
    /\ UNCHANGED <<traces, metrics, health, lock, gauge, prom, now, nextId, calls, queries, faults, priceVars, regVars, readVars, upsertVars>>

\* adapter.create_agent(agent_config) and the 'agent_creation' step; with no
\* adapter found the attribute access raises
EqCreate(t) ==
    /\ th[t].pc = "eq_create"
    /\ \E raises \in BOOLEAN :
          IF th[t].adapter = "None" \/ raises
          THEN th' = [th EXCEPT ![t].pc = "eq_except", ![t].threw = "create",
                         ![t].error = IF th[t].adapter = "None"
                                      THEN "NoneType has no attribute create_agent"
                                      ELSE "create_agent failed"]
          ELSE th' = [th EXCEPT ![t] =
                         BeginAddStep(@, th[t].id, "agent_creation",
                                      [agent_type |-> "agent"], "eq_exec")]
    /\ UNCHANGED <<traces, metrics, health, lock, gauge, prom, now, nextId, calls, queries, faults, priceVars, regVars, readVars, upsertVars>>

\* adapter.execute_query returned result: cleaning, token data and the
\* 'query_execution' step
EqExecReturns(t) ==
    /\ th[t].pc = "eq_exec"
    /\ \E result \in AdapterResults :
          LET duration   == now - th[t].start_time
              token_data == SuccessTokenData(th[t].request_data, result.answer)
          IN  th' = [th EXCEPT ![t] =
                        BeginAddStep([@ EXCEPT !.result = result, !.duration = duration,
                                               !.token_data = token_data,
                                               !.response = _clean_response(result.answer)],
                                     th[t].id, "query_execution",
                                     [duration |-> duration,
                                      total_tokens |-> token_data.total_tokens,
                                      total_cost |-> token_data.total_cost,
                                      status |-> "completed"],
                                     "eq_end")]
    /\ UNCHANGED <<traces, metrics, health, lock, gauge, prom, now, nextId, calls, queries, faults, priceVars, regVars, readVars, upsertVars>>

\* adapter.execute_query raised
EqExecRaises(t) ==
    /\ th[t].pc = "eq_exec"
    /\ th' = [th EXCEPT ![t].pc = "eq_except", ![t].threw = "exec",
                 ![t].error = "adapter failure"]
    /\ UNCHANGED <<traces, metrics, health, lock, gauge, prom, now, nextId, calls, queries, faults, priceVars, regVars, readVars, upsertVars>>

\* final_result is built and end_trace(trace_id, 'completed', cleaned_response)
\* called; the envelope is returned when end_trace has returned
EqEnd(t) ==
    /\ th[t].pc = "eq_end"
    /\ th' = [th EXCEPT ![t] =
                 BeginEnd([@ EXCEPT !.env =
                              [ SuccessEnvelope(th[t].request_data, th[t].id,
                                    LowerName(Get(th[t].request_data, "framework", "")),
                                    th[t].response, th[t].duration, th[t].token_data)
                                EXCEPT !.status = EnvelopeStatus(th[t].result) ]],
                          th[t].id, "completed", th[t].response, NoError, "idle")]
    /\ UNCHANGED <<traces, metrics, health, lock, gauge, prom, now, nextId, calls, queries, faults, priceVars, regVars, readVars, upsertVars>>

\* the except clause: token data of the query alone and
\* end_trace(trace_id, 'failed', '', error_message); the error envelope is
\* returned when end_trace has returned
EqExcept(t) ==
    /\ th[t].pc = "eq_except"
    /\ LET token_data == FailureTokenData(th[t].request_data)
       IN  th' = [th EXCEPT ![t] =
                     BeginEnd([@ EXCEPT !.duration = now - th[t].start_time,
                                        !.token_data = token_data,
                                        !.env = FailureEnvelope(th[t].request_data, th[t].id,
                                                    th[t].error, now - th[t].start_time,
                                                    token_data)],
                              th[t].id, "failed", <<>>, th[t].error, "idle")]
    /\ UNCHANGED <<traces, metrics, health, lock, gauge, prom, now, nextId, calls, queries, faults, priceVars, regVars, readVars, upsertVars>>

NextStore ==
    \/ Tick
    \/ \E t \in Threads :
          \/ CallExecuteQuery(t) \/ CallStartTrace(t) \/ CallAddStep(t)
          \/ CallEndTrace(t) \/ CallSaveHealth(t) \/ CallCleanup(t)
          \/ Acquire(t)
          \/ StartWrite(t) \/ AddStepRead(t) \/ AddStepWrite(t)
          \/ EndRead(t) \/ EndWrite(t) \/ EndMetricWrite(t)
          \/ HealthWrite(t) \/ CleanupRun(t)
          \/ EqLookup(t) \/ EqCreate(t) \/ EqExecReturns(t) \/ EqExecRaises(t)
          \/ EqEnd(t) \/ EqExcept(t)

-----------------------------------------------------------------------------
(* The specifications *)

Init == InitStore /\ InitPriceIdle /\ InitRegistryIdle /\ InitReadIdle /\ InitUpsertIdle
Next == NextStore
Spec == Init /\ [][Next]_vars

InitP == InitPrice /\ InitStore /\ InitRegistryIdle /\ InitReadIdle /\ InitUpsertIdle
NextP == PriceCall \/ PricingCall \/ ExtractCall
SpecPrice == InitP /\ [][NextP]_vars

InitR == InitRegistry /\ InitStore /\ InitPriceIdle /\ InitReadIdle /\ InitUpsertIdle
NextR == LoadNext \/ Dispatch \/ HealthCheck
SpecRegistry == InitR /\ [][NextR]_vars

-----------------------------------------------------------------------------
(* SpecCleanup: cleanup_old_data on tables that earlier calls have filled *)

\* a traces row as start_trace stores it at time ts
StoredTrace(id, ts) ==
    InsertTrace(NewTrace(id, CHOOSE r \in Requests : "model" \in DOMAIN r, ts), ts)

\* a metrics row as the end_trace of trace 1 stores it at time ts
StoredMetric(ts) ==
    LET trace == EndUpdate(StoredTrace(1, 0), "completed", ResponseUsage, NoError, ts)
    IN  save_metrics(<<>>, MetricsData(trace, 1, "completed", NoError, ts), ts)[1]

\* a framework_health row as save_framework_health stores it at time ts
StoredHealth(ts) == save_framework_health(<<>>, <<HealthData[1]>>, ts)[1]

\* the sequences of at most two items of S
UpToTwo(S) == {<<>>} \cup {<<a>> : a \in S} \cup {<<a, b>> : a \in S, b \in S}

Clock == 0..MaxClock

\* the tables hold rows written at any earlier times, the clock stands at its
\* last value and one call is left to issue
InitCleanup ==
    /\ traces \in { [id \in TraceIds |->
                         IF f[id] = None THEN NoRow ELSE StoredTrace(id, f[id])] :
                     f \in [TraceIds -> Clock \cup {None}] }
    /\ metrics \in UpToTwo({StoredMetric(ts) : ts \in Clock})
    /\ health \in UpToTwo({StoredHealth(ts) : ts \in Clock})
    /\ lock = 0
    /\ gauge = 0
    /\ prom = NoCounters
    /\ now = MaxClock
    /\ nextId = MaxTraces
    /\ th = [t \in Threads |-> IdleThread]
    /\ calls = MaxCalls - 1
    /\ queries = 0
    /\ faults = 0

InitC == InitCleanup /\ InitPriceIdle /\ InitRegistryIdle /\ InitReadIdle /\ InitUpsertIdle
NextC == \E t \in Threads : CallCleanup(t) \/ CleanupRun(t)
SpecCleanup == InitC /\ [][NextC]_vars

-----------------------------------------------------------------------------
(* SpecSequential: one caller, every call made after the one before it has
   returned *)

Caller == 1

NextSeq ==
    \/ Tick
    \/ CallExecuteQuery(Caller) \/ CallStartTrace(Caller)
    \/ CallAddStep(Caller) \/ CallEndTrace(Caller)
    \/ Acquire(Caller)
    \/ StartWrite(Caller) \/ AddStepRead(Caller) \/ AddStepWrite(Caller)
    \/ EndRead(Caller) \/ EndWrite(Caller) \/ EndMetricWrite(Caller)
    \/ EqLookup(Caller) \/ EqCreate(Caller) \/ EqExecReturns(Caller)
    \/ EqExecRaises(Caller) \/ EqEnd(Caller) \/ EqExcept(Caller)

SpecSequential == Init /\ [][NextSeq]_vars

-----------------------------------------------------------------------------
(* SpecRead: the read operations on tables that earlier calls have filled *)

Limits == {1, 10}
StatusFilters == {"", "started", "completed"}
Sinces == {now - hours : hours \in {0, 1}}

\* what a read operation leaves in readOut
ReadResult(op, args, ok, out) == [op |-> op, args |-> args, ok |-> ok, out |-> out]

\* one read operation is followed per behaviour
ReadTraces ==
    /\ readOut = NoRead
    /\ \E limit \in Limits, status \in StatusFilters, ok \in BOOLEAN :
          \E out \in get_traces(traces, limit, status, ok) :
              readOut' = ReadResult("get_traces", <<limit, status>>, ok, out)
    /\ UNCHANGED <<storeVars, priceVars, regVars, upsertVars>>

ReadTraceById ==
    /\ readOut = NoRead
    /\ \E trace_id \in TraceIds \cup {UnknownId}, ok \in BOOLEAN :
          readOut' = ReadResult("get_trace_by_id", <<trace_id>>, ok,
                                get_trace_by_id(traces, trace_id, ok))
    /\ UNCHANGED <<storeVars, priceVars, regVars, upsertVars>>

ReadMetricsSummary ==
    /\ readOut = NoRead
    /\ \E since \in Sinces, ok \in BOOLEAN :
          readOut' = ReadResult("get_metrics_summary", <<since>>, ok,
                                get_metrics_summary(metrics, since, ok))
    /\ UNCHANGED <<storeVars, priceVars, regVars, upsertVars>>

ReadTimeSeries ==
    /\ readOut = NoRead
    /\ \E since \in Sinces, ok \in BOOLEAN :
          readOut' = ReadResult("get_time_series_data", <<since>>, ok,
                                get_time_series_data(metrics, since, ok))
    /\ UNCHANGED <<storeVars, priceVars, regVars, upsertVars>>

ReadRecentTraces ==
    /\ readOut = NoRead
    /\ \E limit \in Limits, ok \in BOOLEAN :
          \E out \in get_recent_traces(metrics, limit, ok) :
              readOut' = ReadResult("get_recent_traces", <<limit>>, ok, out)
    /\ UNCHANGED <<storeVars, priceVars, regVars, upsertVars>>

ReadHealthHistory ==
    /\ readOut = NoRead
    /\ \E since \in Sinces, ok \in BOOLEAN :
          \E out \in get_framework_health_history(health, since, ok) :
              readOut' = ReadResult("get_framework_health_history", <<since>>, ok, out)
    /\ UNCHANGED <<storeVars, priceVars, regVars, upsertVars>>

InitRd == InitCleanup /\ InitPriceIdle /\ InitRegistryIdle /\ InitReadIdle /\ InitUpsertIdle
NextRd ==
    \/ ReadTraces \/ ReadTraceById \/ ReadMetricsSummary
    \/ ReadTimeSeries \/ ReadRecentTraces \/ ReadHealthHistory
SpecRead == InitRd /\ [][NextRd]_vars

-----------------------------------------------------------------------------
(* SpecUpsert: save_trace statement by statement on the rows of the traces
   table *)

MaxSaves == 3

\* "SELECT id FROM traces WHERE trace_id = ?": the positions of the rows found
Existing(table, trace_id) == {i \in 1..Len(table) : table[i].trace_id = trace_id}

\* the statements of save_trace up to the commit: the UPDATE changes every row
\* its WHERE clause selects, the INSERT adds a row at the end
SaveTraceStatements(table, trace_data, clock) ==
    IF Existing(table, trace_data.trace_id) # {}
    THEN [i \in 1..Len(table) |->
             IF table[i].trace_id = trace_data.trace_id
             THEN UpdateTrace(table[i], trace_data) ELSE table[i]]
    ELSE Append(table, InsertTrace(trace_data, clock))

\* the dicts the callers of save_trace pass: the new trace of start_trace, the
\* loaded trace with a step added as add_step passes it, and the loaded trace
\* ended as end_trace passes it, here with another session and start timestamp
\* than the ones start_trace stored
StartedTraces == {NewTrace(id, r, 0) : id \in TraceIds, r \in Requests}
SteppedTraces ==
    {AddStepUpdate(InsertTrace(n, 0), "llm_call", [tokens |-> 3], MaxClock) : n \in StartedTraces}
EndedTraces ==
    {[EndUpdate(InsertTrace(n, 0), "completed", ResponseUsage, NoError, MaxClock)
         EXCEPT !.session_id = "other", !.timestamp = MaxClock] : n \in StartedTraces}
SaveArguments == StartedTraces \cup SteppedTraces \cup EndedTraces

\* one call of save_trace(trace_data), all of it inside the lock
SaveTraceCall ==
    /\ saves < MaxSaves
    /\ \E trace_data \in SaveArguments, ok \in BOOLEAN :
          /\ traceRows' = IF ok THEN SaveTraceStatements(traceRows, trace_data, now) ELSE traceRows
          /\ upsertIn' = [ok |-> ok, ret |-> SaveTraceEnds(ok), trace_data |-> trace_data]
    /\ saves' = saves + 1
    /\ UNCHANGED <<storeVars, priceVars, regVars, readVars>>

InitU == InitStore /\ InitPriceIdle /\ InitRegistryIdle /\ InitReadIdle /\ InitUpsertIdle
NextU == SaveTraceCall
SpecUpsert == InitU /\ [][NextU]_vars

-----------------------------------------------------------------------------
(* SpecLock: the worker threads call the operations whose store writes take
   DatabaseManager.lock, under a fair scheduler *)

\* the steps of a call in progress on thread t, the wait for the lock apart
Proceed(t) ==
    \/ StartWrite(t) \/ AddStepRead(t) \/ AddStepWrite(t)
    \/ EndRead(t) \/ EndWrite(t) \/ EndMetricWrite(t)
    \/ HealthWrite(t)

NextLock ==
    \E t \in Threads :
        \/ CallStartTrace(t) \/ CallAddStep(t) \/ CallEndTrace(t) \/ CallSaveHealth(t)
        \/ Acquire(t)
        \/ StartWrite(t) \/ AddStepRead(t) \/ AddStepWrite(t)
        \/ EndRead(t) \/ EndWrite(t) \/ EndMetricWrite(t)
        \/ HealthWrite(t)

\* a runnable thread is scheduled eventually, and a thread blocked in
\* lock.acquire() gets the lock if it is free again and again; no caller is
\* obliged to make a call
FairScheduling ==
    \A t \in Threads : WF_vars(Proceed(t)) /\ SF_vars(Acquire(t))

SpecLock == Init /\ [][NextLock]_vars /\ FairScheduling

-----------------------------------------------------------------------------
(* SpecPair: trace 1 is stored; the worker threads start further traces and
   call add_step and end_trace, the calls on one trace id one after the other *)

\* no other thread has a call in progress on the trace id thread t was handed
Own(t) == \A u \in Threads \ {t} : th[u].pc \in Resting \/ th[u].id # th'[t].id

CallAddStepOwn(t) == CallAddStep(t) /\ Own(t)
CallEndTraceOwn(t) == CallEndTrace(t) /\ Own(t)

\* the state after start_trace(r) returned at time 0
InitStarted ==
    /\ traces \in { save_trace([id \in TraceIds |-> NoRow], NewTrace(1, r, 0), 0) :
                     r \in Requests }
    /\ metrics = <<>>
    /\ health = <<>>
    /\ lock = 0
    /\ gauge = 1
    /\ prom = NoCounters
    /\ now = 0
    /\ nextId = 1
    /\ th = [t \in Threads |-> IdleThread]
    /\ calls = 0
    /\ queries = 0
    /\ faults = 0

InitPair == InitStarted /\ InitPriceIdle /\ InitRegistryIdle /\ InitReadIdle /\ InitUpsertIdle

NextPair ==
    \/ Tick
    \/ \E t \in Threads :
          \/ CallStartTrace(t) \/ CallAddStepOwn(t) \/ CallEndTraceOwn(t)
          \/ Acquire(t)
          \/ StartWrite(t) \/ AddStepRead(t) \/ AddStepWrite(t)
          \/ EndRead(t) \/ EndWrite(t) \/ EndMetricWrite(t)

SpecPair == InitPair /\ [][NextPair]_vars

-----------------------------------------------------------------------------
(* Properties *)

\* the keys of the envelope execute_query returns
EnvelopeKeys ==
    { "answer", "trace_id", "framework", "model", "vector_store", "duration",
      "input_tokens", "output_tokens", "tokens_used", "input_cost", "output_cost",
      "total_cost", "status" }

\* positions inside a with-lock block of the store
WritePcs == {"st_write", "as_write", "en_write", "en_mwrite", "hl_write"}

\* positions at which a statement that changes a table is in flight
MutationPcs == WritePcs \cup {"cl_run"}

Terminal == {"completed", "failed"}

\* a call of AgentService.execute_query has returned on thread t
Returned(t) == th[t].top = "execute_query" /\ th[t].pc = "idle"

C2_StatusOnlyForward ==
    [][ \A id \in TraceIds :
            (traces[id] # NoRow /\ traces'[id] # NoRow) =>
                /\ traces[id].status \in Terminal =>
                       traces'[id].status = traces[id].status
                /\ traces[id].status = "started" =>
                       traces'[id].status \in {"started"} \cup Terminal ]_vars

\* C3: every statement that changes a table runs while its thread holds
\* DatabaseManager.lock, so at most one such statement is in flight.
C3_MutationsHoldLock ==
    /\ \A t \in Threads : th[t].pc \in MutationPcs => lock = t
    /\ Cardinality({t \in Threads : th[t].pc \in MutationPcs}) <= 1

\* C4: when adapter.execute_query returns a result whose status is "error",
\* the envelope execute_query returns has status error.
C4_ReturnedErrorCaptured ==
    \A t \in Threads :
        (Returned(t) /\ th[t].result.status = "error") => th[t].env.status = "error"

\* C5: when adapter.execute_query raises, execute_query calls
\* end_trace(trace_id, 'failed', '', error text), the trace end_trace then
\* writes has status failed and the error text, and the envelope has status
\* error, output_tokens 0, output_cost 0, input_tokens equal to the token count
\* of the query alone, total_cost equal to input_cost, and an answer that
\* starts with the failure prefix.
C5_AdapterRaises ==
    \A t \in Threads :
        (th[t].top = "execute_query" /\ th[t].threw = "exec" /\ th[t].env # NoEnvelope) =>
            LET env          == th[t].env
                request_data == th[t].request_data
            IN  /\ env.status = "error"
                /\ env.output_tokens = 0
                /\ env.output_cost = 0
                /\ env.input_tokens =
                       count_tokens(Get(request_data, "query", <<>>),
                                    Get(request_data, "model", "gpt-4o-mini"))
                /\ env.total_cost = env.input_cost
                /\ Head(env.answer) = Lead("Error:")
                /\ env.error = "adapter failure"
                /\ th[t].status = "failed"
                /\ th[t].error = "adapter failure"
                /\ (th[t].pc # "en_read" /\ th[t].trace # NoRow) =>
                       /\ th[t].trace.status = "failed"
                       /\ th[t].trace.error_message = "adapter failure"

\* C5 witness: the adapter raised, execute_query returned, and the stored row
\* is failed with the error text
C5_Witness ==
    \E t \in Threads :
        /\ Returned(t)
        /\ th[t].threw = "exec"
        /\ th[t].env.input_tokens > 0
        /\ traces[th[t].id] # NoRow
        /\ traces[th[t].id].status = "failed"
        /\ traces[th[t].id].error_message = "adapter failure"

\* C6: every stored trace row and every stored metrics record has
\* total_tokens = input_tokens + output_tokens.
C6_TotalTokens ==
    /\ \A id \in TraceIds :
          traces[id] # NoRow =>
              traces[id].total_tokens = traces[id].input_tokens + traces[id].output_tokens
    /\ \A i \in 1..Len(metrics) :
          metrics[i].total_tokens = metrics[i].input_tokens + metrics[i].output_tokens

\* C6 witness: an ended trace whose token counts were extracted from the
\* response, with its metrics record stored, and a step added to it
C6_Witness ==
    \E id \in TraceIds :
        /\ traces[id] # NoRow
        /\ traces[id].status = "completed"
        /\ traces[id].input_tokens = 37
        /\ traces[id].output_tokens = 5
        /\ traces[id].steps # <<>>
        /\ \E i \in 1..Len(metrics) : metrics[i].trace_id = id /\ metrics[i].output_tokens = 5

\* C7: in every result of calculate_tokens_and_cost, total_cost is the
\* 6-decimal rounding of the sum of the returned input_cost and output_cost;
\* the components are already rounded to 6 decimals, so that is their sum.
C7_TotalCostOfRounded ==
    priceOut # NoPrice => priceOut.total_cost = priceOut.input_cost + priceOut.output_cost

\* C8: a second end_trace on a trace id never raises, and when its save_trace
\* succeeds on a row that already holds a terminal status, the row afterwards
\* holds the status, response, error message, duration, token and cost fields
\* of this second call, computed from its arguments alone.
C8_SecondEndWins ==
    /\ [](\A t \in Threads : th[t].top = "end_trace" => th[t].pc # "raised")
    /\ [][ \A t \in Threads :
              ( /\ th[t].pc = "en_write"
                /\ th'[t].pc = "en_mlock"
                /\ th'[t].saved = "True"
                /\ traces[th[t].id] # NoRow
                /\ traces[th[t].id].status \in Terminal ) =>
                  LET old == traces[th[t].id]
                      row == traces'[th[t].id]
                      token_data == EndTokenData(old, th[t].response)
                  IN  /\ row.status = th[t].status
                      /\ row.response = th[t].response
                      /\ row.error_message = th[t].error
                      /\ row.end_time = th[t].trace.end_time
                      /\ row.total_duration = th[t].trace.end_time - old.metrics.start_time
                      /\ row.input_tokens = token_data.input_tokens
                      /\ row.output_tokens = token_data.output_tokens
                      /\ row.total_tokens = token_data.total_tokens
                      /\ row.input_cost = token_data.input_cost
                      /\ row.output_cost = token_data.output_cost
                      /\ row.total_cost = token_data.total_cost ]_vars

\* C8 witness: two end_trace calls on one trace id have both stored their
\* metrics record, with different statuses, and the row holds the status,
\* response and error message of the later one
C8_Witness ==
    \E i, j \in 1..Len(metrics) :
        /\ i < j
        /\ metrics[i].trace_id = metrics[j].trace_id
        /\ metrics[i].status = "completed"
        /\ metrics[j].status = "failed"
        /\ \A t \in Threads : th[t].pc = "idle"
        /\ LET row == traces[metrics[j].trace_id]
           IN  /\ row # NoRow
               /\ row.status = "failed"
               /\ row.response = <<>>
               /\ row.error_message = "boom"
               /\ row.output_tokens = 0

\* C9: every name the loop of _initialize_frameworks has passed has its entry:
\* a failing loader leaves status failed, no instance and the captured error,
\* and a sound loader leaves status loaded and the instance get_framework
\* returns, whatever the outcomes of the loaders before it.
C9_LoadersIsolated ==
    \A i \in 1..Len(framework_configs) :
        i < loadPos =>
            LET name  == framework_configs[i]
                entry == FrameworkEntry(frameworks, name)
            IN  IF loaderOut[name] = "ok"
                THEN /\ entry # NoEntry
                     /\ entry.status = "loaded"
                     /\ entry.instance # NoInstance
                     /\ get_framework(frameworks, name) = entry.instance
                     /\ get_available_frameworks(frameworks)[name].status = "loaded"
                ELSE /\ entry # NoEntry
                     /\ entry.status = "failed"
                     /\ entry.instance = NoInstance
                     /\ entry.error = loaderOut[name]
                     /\ get_framework(frameworks, name) = NoInstance
                     /\ get_available_frameworks(frameworks)[name].status = "failed"

\* C9 witness: the loop is over, the first two loaders failed and the last
\* framework is loaded and returned by get_framework
C9_Witness ==
    /\ loadPos > Len(framework_configs)
    /\ loaderOut[framework_configs[1]] # "ok"
    /\ loaderOut[framework_configs[2]] # "ok"
    /\ get_framework(frameworks, framework_configs[Len(framework_configs)]) # NoInstance

\* C10: FrameworkManager.execute_query never raises: its result has status
\* success or error; for a name with no entry or a failed entry the status is
\* error and framework.run is not called; when framework.run raises the status
\* is error and the result carries the error text; the status is success only
\* when the entry is loaded and framework.run returned.
C10_DispatchNeverRaises ==
    dispatched # NoDispatch =>
        LET res   == dispatched.res
            entry == FrameworkEntry(frameworks, Lower(dispatched.name))
        IN  /\ res.status \in {"success", "error"}
            /\ (entry = NoEntry \/ entry.status = "failed") =>
                   (res.status = "error" /\ ~dispatched.called)
            /\ (dispatched.called /\ dispatched.run.raises) =>
                   (res.status = "error" /\ res.error = dispatched.run.text)
            /\ res.status = "success" =>
                   (entry.status = "loaded" /\ dispatched.called /\ ~dispatched.run.raises)

\* C10 witness: a loaded framework's run raised and the result is the error
\* result with the text, after an earlier dispatch had reached an adapter
C10_Witness ==
    /\ dispatched # NoDispatch
    /\ dispatched.called
    /\ dispatched.run.raises
    /\ dispatched.res.status = "error"
    /\ dispatched.res.error = "connection refused"
    /\ adapterCalls = MaxDispatch

\* C11: a cleanup_old_data call that meets no storage error removes from
\* traces, metrics and framework_health exactly the rows whose timestamp is
\* strictly older than its cutoff, leaves every other row as it was, and
\* returns the number of rows removed over the three tables; a call that
\* meets a storage error removes nothing and returns 0.
C11_CleanupExact ==
    [][ \A t \in Threads :
           (th[t].pc = "cl_run" /\ th'[t].pc = "idle") =>
               LET cutoff == th[t].cutoff
                   gone   == {id \in TraceIds : traces[id] # NoRow /\ traces'[id] = NoRow}
               IN  IF faults' # faults
                   THEN /\ traces' = traces /\ metrics' = metrics /\ health' = health
                        /\ th'[t].deleted = 0
                   ELSE /\ gone = {id \in TraceIds :
                                      traces[id] # NoRow /\ traces[id].timestamp < cutoff}
                        /\ \A id \in TraceIds \ gone : traces'[id] = traces[id]
                        /\ metrics' = SelectSeq(metrics, LAMBDA r : r.timestamp >= cutoff)
                        /\ health' = SelectSeq(health, LAMBDA r : r.last_check >= cutoff)
                        /\ th'[t].deleted = Cardinality(gone)
                                             + (Len(metrics) - Len(metrics'))
                                             + (Len(health) - Len(health')) ]_vars

\* C11 witness: a cleanup has returned 3 after removing one row of each table,
\* and each table keeps a row written at the cutoff itself
C11_Witness ==
    \E t \in Threads :
        /\ th[t].top = "cleanup_old_data" /\ th[t].pc = "idle"
        /\ th[t].deleted = 3
        /\ th[t].cutoff = MaxClock - 1
        /\ \E id \in TraceIds : traces[id] # NoRow /\ traces[id].timestamp = th[t].cutoff
        /\ Len(metrics) = 1 /\ metrics[1].timestamp = th[t].cutoff
        /\ Len(health) = 1 /\ health[1].last_check = th[t].cutoff

\* C12: a save_trace, save_metrics or save_framework_health that meets a
\* storage error returns False without raising, leaves the three tables as
\* they were, and its caller goes on without calling it again; and whatever
\* writes failed inside start_trace, add_step or end_trace, the envelope
\* execute_query returns has status success when no exception reached its
\* except clause and error when one did.
C12_WriteFailureContained ==
    /\ [](\A t \in Threads :
              Returned(t) =>
                  th[t].env.status = (IF th[t].threw = "none" THEN "success" ELSE "error"))
    /\ [][ \A t \in Threads :
              (th[t].pc \in WritePcs /\ th'[t].pc # th[t].pc /\ faults' # faults) =>
                  /\ traces' = traces /\ metrics' = metrics /\ health' = health
                  /\ th'[t].saved = "False"
                  /\ th'[t].pc \notin LockPcs \ {"en_mlock"}
                  /\ th'[t].pc = "en_mlock" => th[t].pc = "en_write" ]_vars

\* C12 witness: execute_query returned a success envelope although the
\* save_metrics of its end_trace had failed
C12_Witness ==
    \E t \in Threads :
        /\ Returned(t)
        /\ th[t].env.status = "success"
        /\ th[t].saved = "False"
        /\ faults = MaxFaults
        /\ \A i \in 1..Len(metrics) : metrics[i].trace_id # th[t].id

\* C13: a read operation that meets a storage error returns its default
\* without raising: None from get_trace_by_id, the empty list from get_traces
\* and get_recent_traces, the empty dict from get_metrics_summary and
\* get_framework_health_history, and the series of empty lists from
\* get_time_series_data; and no read operation, failed or not, changes a table.
C13_ReadFailureDefaults ==
    /\ [](readOut # NoRead /\ ~readOut.ok =>
             CASE readOut.op = "get_trace_by_id" -> readOut.out = NoRow
               [] readOut.op \in {"get_traces", "get_recent_traces"} ->
                      DOMAIN readOut.out = {}
               [] readOut.op \in {"get_metrics_summary", "get_framework_health_history"} ->
                      DOMAIN readOut.out = {}
               [] readOut.op = "get_time_series_data" ->
                      /\ DOMAIN readOut.out =
                             { "labels", "request_counts", "input_tokens", "output_tokens",
                               "total_tokens", "input_costs", "output_costs", "total_costs",
                               "latencies" }
                      /\ \A k \in DOMAIN readOut.out : readOut.out[k] = <<>>)
    /\ [][readOut' # readOut =>
             (traces' = traces /\ metrics' = metrics /\ health' = health)]_vars

\* C13 witness: get_traces failed on a store that holds two traces and
\* returned the empty list
C13_Witness ==
    /\ readOut # NoRead
    /\ readOut.op = "get_traces"
    /\ ~readOut.ok
    /\ readOut.out = <<>>
    /\ \A id \in TraceIds : traces[id] # NoRow
    /\ Len(metrics) = 2

\* C14: start_trace, add_step and end_trace return without raising for any
\* argument and any store failure: no call of one of the three ends with an
\* exception.
C14_TracingNeverRaises ==
    \A t \in Threads :
        th[t].top \in {"start_trace", "add_step", "end_trace"} => th[t].pc # "raised"

\* C15: calculate_tokens_and_cost resolves the two token counts independently:
\* in each direction an actual count that was supplied, 0 included, is the
\* count used, and otherwise the counted tokens of the query (input) or of the
\* response (output) are; the count of one direction is the same whatever
\* actual count is supplied for the other.
C15_CountsResolvedIndependently ==
    priceOut # NoPrice =>
        LET ActualCounts == {None} \cup 0..MaxTokens
            Call(actual_input, actual_output) ==
                calculate_tokens_and_cost(priceIn.query, priceIn.response, priceIn.model,
                                          actual_input, actual_output)
        IN  /\ priceOut.input_tokens =
                   IF priceIn.actual_input_tokens # None THEN priceIn.actual_input_tokens
                   ELSE count_tokens(priceIn.query, priceIn.model)
            /\ priceOut.output_tokens =
                   IF priceIn.actual_output_tokens # None THEN priceIn.actual_output_tokens
                   ELSE count_tokens(priceIn.response, priceIn.model)
            /\ \A other \in ActualCounts :
                   /\ Call(priceIn.actual_input_tokens, other).input_tokens
                          = priceOut.input_tokens
                   /\ Call(other, priceIn.actual_output_tokens).output_tokens
                          = priceOut.output_tokens

\* C15 witness: an actual input count of 0 was supplied with a query that counts
\* more than 0 tokens and no actual output count; the call used 0 input tokens
\* and the counted tokens of the response
C15_Witness ==
    /\ priceOut # NoPrice
    /\ priceIn.actual_input_tokens = 0
    /\ priceIn.actual_output_tokens = None
    /\ count_tokens(priceIn.query, priceIn.model) > 0
    /\ priceOut.input_tokens = 0
    /\ priceOut.output_tokens = count_tokens(priceIn.response, priceIn.model)
    /\ priceOut.output_tokens > 0

\* C16: for a model the pricing table does not hold, get_model_pricing and
\* calculate_tokens_and_cost return (neither raises) and use the input and
\* output rates of gpt-4o-mini; for a model of the table they use the rates of
\* that model.
C16_UnknownModelDefaultRates ==
    LET rates == IF priceIn.model \in DOMAIN token_costs THEN token_costs[priceIn.model]
                 ELSE token_costs["gpt-4o-mini"]
    IN  /\ pricingOut # NoPrice => pricingOut = rates
        /\ priceOut # NoPrice =>
               /\ priceOut.pricing = rates
               /\ priceOut.input_cost = Round6(priceOut.input_tokens * rates.input)
               /\ priceOut.output_cost = Round6(priceOut.output_tokens * rates.output)

\* C16 witness: both operations returned for the model name "my-model", which
\* the table does not hold, with the rates of gpt-4o-mini, and the call priced
\* a positive number of tokens
C16_Witness ==
    /\ priceIn.model \notin DOMAIN token_costs
    /\ pricingOut = token_costs["gpt-4o-mini"]
    /\ priceOut # NoPrice
    /\ priceOut.pricing = token_costs["gpt-4o-mini"]
    /\ priceOut.output_tokens = MaxTokens
    /\ priceOut.output_cost > 0

\* C17: the save_trace of add_step replaces the stored steps and counters by
\* the copy the call built from its own load, whatever was stored in between.
\* So when two add_step calls on one trace both load before either saves, the
\* second save overwrites the first: the stored trace holds the steps and the
\* counters of one of the two calls only.
C17_SecondAddStepOverwrites ==
    /\ [][ \A t \in Threads :
              (th[t].pc = "as_write" /\ th'[t].pc # "as_write" /\ faults' = faults) =>
                  /\ traces'[th[t].id].steps = th[t].trace.steps
                  /\ traces'[th[t].id].metrics = th[t].trace.metrics ]_vars
    /\ [](\A t1, t2 \in Threads :
              ( /\ t1 # t2
                /\ \A t \in {t1, t2} :
                      /\ th[t].top = "add_step" /\ th[t].pc = "idle"
                      /\ th[t].saved = "True"
                /\ th[t1].id = th[t2].id
                /\ Len(th[t1].trace.steps) = Len(th[t2].trace.steps)
                /\ traces[th[t1].id] # NoRow ) =>
                  \E t \in {t1, t2} :
                      /\ traces[th[t].id].steps = th[t].trace.steps
                      /\ traces[th[t].id].metrics = th[t].trace.metrics
                      /\ Len(traces[th[t].id].steps) = Len(th[t].trace.steps))

\* C17 witness: add_step("llm_call", tokens 3) and add_step("note") on one
\* fresh trace both saved successfully, and the stored trace holds the note
\* step alone, with no token and no api call counted
C17_Witness ==
    /\ \A t \in Threads :
          /\ th[t].top = "add_step" /\ th[t].pc = "idle" /\ th[t].saved = "True"
          /\ th[t].id = 1
    /\ \E t \in Threads : th[t].step_name = "llm_call"
    /\ faults = 0
    /\ Len(traces[1].steps) = 1
    /\ traces[1].steps[1].step_name = "note"
    /\ traces[1].metrics.tokens_used = 0
    /\ traces[1].metrics.api_calls = 0

\* C18: an execution of execute_query calls start_trace exactly once and
\* end_trace exactly once, on the path that returns a success envelope and on
\* the path through the except clause alike, and makes no add_step call once
\* it has called end_trace. When no store call has failed, the trace of an
\* execute_query that has returned has a terminal status: completed exactly
\* when the envelope says success, failed exactly when it says error.
C18_OneStartOneEnd ==
    /\ [](\A t \in Threads :
              th[t].top = "execute_query" =>
                  /\ th[t].starts = 1
                  /\ th[t].ends <= 1
                  /\ Returned(t) => th[t].ends = 1
                  /\ (Returned(t) /\ faults = 0) =>
                        LET status == traces[th[t].id].status
                        IN  /\ status \in Terminal
                            /\ status = "completed" <=> th[t].env.status = "success"
                            /\ status = "failed" <=> th[t].env.status = "error")
    /\ [][ \A t \in Threads :
              (th[t].top = "execute_query" /\ th[t].pc \notin Resting) =>
                  /\ th'[t].starts = th[t].starts
                  /\ th'[t].adds # th[t].adds => th[t].ends = 0
                  /\ th'[t].ends # th[t].ends => th[t].pc \in {"eq_end", "eq_except"} ]_vars

\* C18 witness: an execute_query whose adapter raised has returned after one
\* start_trace, two add_step calls and one end_trace, no store call failed,
\* and its trace is failed
C18_Witness ==
    \E t \in Threads :
        /\ Returned(t)
        /\ th[t].threw = "exec"
        /\ th[t].starts = 1 /\ th[t].adds = 2 /\ th[t].ends = 1
        /\ faults = 0
        /\ traces[th[t].id].status = "failed"
        /\ th[t].env.status = "error"

\* C19: when the add_step calls on a trace are made one after the other and
\* no store call fails, each call appends exactly its own step behind the
\* steps stored so far, and no other step of any call, end_trace included,
\* changes the stored steps; so get_trace_by_id returns one step per call, in
\* the order of the calls.
C19_StepsInCallOrder ==
    /\ [][ \A id \in TraceIds :
              traces[id] # NoRow =>
                  IF \E t \in Threads : /\ th[t].pc = "as_write" /\ th[t].id = id
                                        /\ th'[t].pc # "as_write" /\ faults' = faults
                  THEN LET t    == CHOOSE t \in Threads : th[t].pc = "as_write" /\ th[t].id = id
                           read == get_trace_by_id(traces', id, TRUE).steps
                       IN  /\ Len(read) = Len(traces[id].steps) + 1
                           /\ SubSeq(read, 1, Len(read) - 1) = traces[id].steps
                           /\ read[Len(read)].step_name = th[t].step_name
                           /\ read[Len(read)].data = th[t].step_data
                  ELSE traces'[id] # NoRow /\ traces'[id].steps = traces[id].steps ]_vars
    /\ [][ \A t \in Threads :
              (th[t].pc = "as_read" /\ th'[t].pc # "as_read" /\ faults' = faults
                 /\ get_trace_by_id(traces, th[t].id, TRUE) # NoRow) =>
                  th'[t].pc = "as_lock" ]_vars
    /\ [](\A t \in Threads :
              (th[t].top = "execute_query" /\ faults = 0
                 /\ th[t].pc \notin {"st_lock", "st_write", "as_read", "as_lock", "as_write"}) =>
                  Len(get_trace_by_id(traces, th[t].id, TRUE).steps) = th[t].adds)

\* C19 witness: execute_query made its three add_step calls and its end_trace
\* with no store failure, and the trace read back holds the three steps in
\* the order of the calls
C19_Witness ==
    \E t \in Threads :
        /\ Returned(t)
        /\ th[t].adds = 3
        /\ faults = 0
        /\ LET trace == get_trace_by_id(traces, th[t].id, TRUE)
           IN  /\ trace.status = "completed"
               /\ [i \in 1..Len(trace.steps) |-> trace.steps[i].step_name] =
                      <<"framework_initialization", "agent_creation", "query_execution">>

\* the columns the claim calls identity fields and mutable fields
IdentityColumns ==
    { "trace_id", "session_id", "timestamp", "framework", "model", "vector_store",
      "query", "request_data" }
MutableColumns ==
    { "status", "response", "end_time", "total_duration", "input_tokens",
      "output_tokens", "total_tokens", "input_cost", "output_cost", "total_cost",
      "error_message", "steps", "metrics" }

\* C20: save_trace is an upsert keyed by trace_id. With no row of that
\* trace_id it adds one row holding the trace passed in and leaves the others
\* alone. With a row of that trace_id it adds none, sets the mutable columns of
\* that row from the trace passed in, and leaves its identity columns, and
\* every other row, as stored, also when the trace passed in has other
\* identity values. No two rows ever have the same trace_id.
C20_SaveTraceUpserts ==
    /\ [][ (saves' # saves /\ upsertIn'.ok) =>
              LET trace_data == upsertIn'.trace_data
                  fresh      == InsertTrace(trace_data, now)
                  found      == Existing(traceRows, trace_data.trace_id)
              IN  IF found = {}
                  THEN /\ Len(traceRows') = Len(traceRows) + 1
                       /\ SubSeq(traceRows', 1, Len(traceRows)) = traceRows
                       /\ \A c \in IdentityColumns \cup (MutableColumns \ {"end_time"}) :
                              traceRows'[Len(traceRows')][c] = Get(trace_data, c, fresh[c])
                       /\ traceRows'[Len(traceRows')].end_time = None
                  ELSE /\ Len(traceRows') = Len(traceRows)
                       /\ \A i \in 1..Len(traceRows) :
                              IF i \in found
                              THEN /\ \A c \in IdentityColumns : traceRows'[i][c] = traceRows[i][c]
                                   /\ \A c \in MutableColumns \ {"end_time"} :
                                          traceRows'[i][c] = fresh[c]
                                   /\ traceRows'[i].end_time = Get(trace_data, "end_time", None)
                              ELSE traceRows'[i] = traceRows[i] ]_vars
    /\ [](\A i, j \in 1..Len(traceRows) : i # j => traceRows[i].trace_id # traceRows[j].trace_id)

\* C20 witness: both traces are stored, and the last save_trace passed an
\* ended trace of another session, start timestamp and framework than the row
\* of its trace_id holds; the row took the status and kept its own session,
\* timestamp and framework
C20_Witness ==
    /\ Len(traceRows) = 2
    /\ upsertIn.ok
    /\ upsertIn.trace_data \in EndedTraces
    /\ \E i \in 1..Len(traceRows) :
          /\ traceRows[i].trace_id = upsertIn.trace_data.trace_id
          /\ traceRows[i].status = "completed"
          /\ traceRows[i].end_time = MaxClock
          /\ traceRows[i].session_id = SessionId /\ upsertIn.trace_data.session_id = "other"
          /\ traceRows[i].timestamp = 0 /\ upsertIn.trace_data.timestamp = MaxClock
          /\ traceRows[i].framework # upsertIn.trace_data.framework

\* C21: when start_trace(request_data) has returned trace_id and its save_trace
\* succeeded, get_trace_by_id(trace_id) is a trace with status started, no
\* steps, tokens_used 0 and api_calls 0, and the framework, model, vector_store
\* and query of the request ('unknown' for an absent one); the id is none of the
\* ids generated before, and the call leaves ACTIVE_REQUESTS one higher.
C21_StartTraceStoresStarted ==
    /\ [](\A t \in Threads :
              (th[t].top = "start_trace" /\ th[t].pc = "idle" /\ th[t].saved = "True") =>
                  LET trace        == get_trace_by_id(traces, th[t].id, TRUE)
                      request_data == th[t].request_data
                  IN  /\ trace # NoRow
                      /\ trace.status = "started"
                      /\ trace.steps = <<>>
                      /\ trace.metrics.tokens_used = 0
                      /\ trace.metrics.api_calls = 0
                      /\ trace.framework = Get(request_data, "framework", "unknown")
                      /\ trace.model = Get(request_data, "model", "unknown")
                      /\ trace.vector_store = Get(request_data, "vector_store", "unknown")
                      /\ trace.query = Get(request_data, "query", <<>>))
    /\ [][ \A t \in Threads :
              /\ (th[t].pc \in Resting /\ th'[t].pc = "st_lock") =>
                     /\ th'[t].id \notin KnownIds
                     /\ \A id \in TraceIds : traces[id] # NoRow => id # th'[t].id
              /\ (th[t].top = "start_trace" /\ th[t].pc = "st_write"
                     /\ th'[t].pc = "idle") => gauge' = gauge + 1 ]_vars

\* C21 witness: the second start_trace of a caller has returned, its request
\* named a model, the trace stored under its id is the started trace of that
\* request, and ACTIVE_REQUESTS stands at 2
C21_Witness ==
    \E t \in Threads :
        /\ th[t].top = "start_trace" /\ th[t].pc = "idle" /\ th[t].saved = "True"
        /\ th[t].id = 2
        /\ traces[1] # NoRow
        /\ traces[2].status = "started"
        /\ traces[2].model = "gemma2-9b-it"
        /\ traces[2].query = QueryList
        /\ gauge = 2

\* C22: for a non-empty text and a model without a tiktoken encoding,
\* count_tokens returns max(1, ceil(number of characters / 4)).
C22_EstimateIsCeiling ==
    ( /\ priceOut # NoPrice
      /\ priceIn.model \notin model_encodings
      /\ priceIn.actual_input_tokens = None
      /\ priceIn.query # <<>> ) =>
        priceOut.input_tokens = Max(1, (TextLen(priceIn.query) + 3) \div 4)

\* C23: extract_tokens_from_response returns, for the input category, the
\* count of the report that comes first in the text among the "input tokens"
\* and "prompt tokens" reports, and for the output category the first among
\* the "output tokens" and "completion tokens" reports; None for a category
\* without report, and a "total tokens" report sets neither.
C23_FirstMatchPerCategoryWins ==
    extractOut # <<>> =>
        LET FirstOf(kinds) ==
                LET reports == SelectSeq(priceIn.response, LAMBDA i : i.k \in kinds)
                IN  IF reports = <<>> THEN None ELSE reports[1].n
        IN  /\ extractOut[1] = FirstOf({"input", "prompt"})
            /\ extractOut[2] = FirstOf({"output", "completion"})

\* C24: health_check returns, without raising, one entry for every name of
\* framework_configs. It calls run once on every framework whose loader
\* succeeded and never on one whose loader failed. The entry is healthy with
\* test_passed true exactly when the loader succeeded and the probe returned;
\* otherwise it is unhealthy with test_passed false and an error: the text of
\* the probe's exception, or the load error.
C24_HealthCheckClassifies ==
    healthOut # NoDispatch =>
        /\ DOMAIN healthOut.res = ConfiguredNames
        /\ \A name \in ConfiguredNames :
              LET entry  == healthOut.res[name]
                  loaded == loaderOut[name] = "ok"
                  passed == loaded /\ healthOut.probe[name] = "ok"
              IN  /\ healthOut.probes[name] = (IF loaded THEN 1 ELSE 0)
                  /\ entry.status \in {"healthy", "unhealthy"}
                  /\ entry.status = "healthy" <=> passed
                  /\ entry.test_passed <=> passed
                  /\ ~passed =>
                        entry.error = (IF loaded THEN healthOut.probe[name]
                                       ELSE loaderOut[name])

\* C24 witness: one health_check met a framework that failed to load, a loaded
\* one whose probe raised and a loaded one whose probe returned
C24_Witness ==
    /\ healthOut # NoDispatch
    /\ \E a, b, c \in ConfiguredNames :
          /\ loaderOut[a] # "ok" /\ healthOut.res[a].error = loaderOut[a]
          /\ healthOut.probes[a] = 0
          /\ loaderOut[b] = "ok" /\ healthOut.probe[b] # "ok"
          /\ healthOut.res[b].status = "unhealthy"
          /\ healthOut.res[b].error = "daemon unreachable"
          /\ loaderOut[c] = "ok" /\ healthOut.res[c].status = "healthy"
          /\ healthOut.probes[b] = 1 /\ healthOut.probes[c] = 1

\* the columns end_trace sets on the trace it saves
EndColumns ==
    { "status", "response", "end_time", "total_duration", "input_tokens",
      "output_tokens", "total_tokens", "input_cost", "output_cost", "total_cost" }

\* C25: add_step changes only the steps and the running counters of the stored
\* trace: when an add_step and an end_trace on the same trace have both
\* finished, in whatever way they interleaved, the stored trace holds the
\* status, response, end time, duration, token and cost values end_trace wrote.
C25_AddStepKeepsEndFields ==
    \A a, e \in Threads :
        ( /\ th[a].top = "add_step" /\ th[a].pc = "idle" /\ th[a].saved = "True"
          /\ th[e].top = "end_trace" /\ th[e].pc = "idle" /\ th[e].trace # NoRow
          /\ th[a].id = th[e].id
          /\ faults = 0
          /\ get_trace_by_id(traces, th[e].id, TRUE) # NoRow ) =>
            \A c \in EndColumns : traces[th[e].id][c] = th[e].trace[c]

\* C26: ACTIVE_REQUESTS is never negative, and between the calls of one
\* caller, when no store call has failed, it equals the number of traces that
\* were started and have not been ended, whatever start_trace, add_step and
\* end_trace calls were made, a second end_trace on the same id and an
\* end_trace on an unknown id included.
C26_GaugeCountsOpenTraces ==
    /\ gauge >= 0
    /\ (th[Caller].pc \in Resting /\ faults = 0) =>
           gauge = Cardinality({id \in TraceIds :
                                   traces[id] # NoRow /\ traces[id].status \notin Terminal})

\* C27: the metrics table never holds two rows of one trace id, and between
\* the calls of one caller every metrics row has the status and the token and
\* cost values of the stored trace of its id, whatever calls were made, a
\* repeated end_trace and a failed save_trace inside end_trace included.
C27_OneMetricPerTrace ==
    /\ \A i, j \in 1..Len(metrics) :
          i # j => metrics[i].trace_id # metrics[j].trace_id
    /\ th[Caller].pc \in Resting =>
          \A i \in 1..Len(metrics) :
              LET trace == get_trace_by_id(traces, metrics[i].trace_id, TRUE)
              IN  trace # NoRow =>
                      \A c \in { "status", "input_tokens", "output_tokens", "total_tokens",
                                  "input_cost", "output_cost", "total_cost" } :
                          metrics[i][c] = trace[c]

\* C28: every row of the metrics table has the trace_id of a row of the
\* traces table, also after cleanup_old_data: a trace whose start timestamp is
\* older than the cutoff while the timestamp of its metrics row is not loses
\* both rows or neither. Stated for the runs in which no store call fails.
C28_NoDanglingMetrics ==
    faults = 0 =>
        \A i \in 1..Len(metrics) :
            get_trace_by_id(traces, metrics[i].trace_id, TRUE) # NoRow

\* C29: every store write that took the lock gives it back, after a commit
\* and after a storage exception alike, and no thread waits for the lock
\* while holding it: the holder of the lock is always inside a with-lock
\* block, the lock is only taken when it is free, every write step frees it,
\* and under fair scheduling every holder releases the lock and every call
\* in progress returns, so no thread is blocked for ever.
C29_LockAlwaysReleased ==
    /\ [](\A t \in Threads :
            /\ lock = t => th[t].pc \in WritePcs
            /\ th[t].pc \in LockPcs => lock # t)
    /\ [][ \A t \in Threads :
             /\ (lock' = t /\ lock # t) => (lock = 0 /\ th[t].pc \in LockPcs)
             /\ (th[t].pc \in WritePcs /\ th'[t] # th[t]) => (lock = t /\ lock' = 0) ]_vars
    /\ \A t \in Threads : (lock = t) ~> (lock # t)
    /\ \A t \in Threads : (th[t].pc \notin Resting) ~> (th[t].pc \in Resting)

\* a write that failed has given the lock back: the other thread holds it now
\* while a call of the first waits for it
C29_Witness ==
    /\ faults > 0
    /\ th[1].pc \in LockPcs
    /\ lock = 2 /\ th[2].pc \in WritePcs
    /\ \E t \in Threads : th[t].saved = "False"

\* the stored row of a trace id, NoRow for an id that was never generated
RowOf(id) == IF id \in TraceIds THEN traces[id] ELSE NoRow

\* C30: calls on distinct traces do not interfere. While the calls on one
\* trace id are made one after the other, whatever the other thread does to
\* other traces: the copy add_step or end_trace is about to write is the
\* update of the row as it is stored now, a stored row changes only by the
\* write of the call on its own id, and the metrics table changes only by the
\* append of the row end_trace built from that copy; so the row, its steps
\* and its metrics row end as they do when the calls on the trace run alone.
C30_DistinctTracesIndependent ==
    /\ [](\A t \in Threads :
            /\ th[t].pc \in {"as_lock", "as_write"} =>
                  /\ RowOf(th[t].id) # NoRow
                  /\ th[t].trace = AddStepUpdate(RowOf(th[t].id), th[t].step_name,
                                                 th[t].step_data, now)
            /\ th[t].pc \in {"en_lock", "en_write"} =>
                  /\ RowOf(th[t].id) # NoRow
                  /\ th[t].trace = EndUpdate(RowOf(th[t].id), th[t].status,
                                             th[t].response, th[t].error, now)
            /\ th[t].pc \in {"en_mlock", "en_mwrite"} =>
                  /\ RowOf(th[t].id) # NoRow
                  /\ th[t].metrics_data = MetricsData(th[t].trace, th[t].id, th[t].status,
                                                      th[t].error, now)
                  /\ th[t].saved = "True" =>
                        RowOf(th[t].id) = UpdateTrace(RowOf(th[t].id), th[t].trace))
    /\ [][ /\ \A id \in TraceIds :
                traces'[id] # traces[id] =>
                    \E t \in Threads :
                        /\ th[t].id = id
                        /\ th[t].pc \in {"st_write", "as_write", "en_write"}
                        /\ traces'[id] = save_trace(traces, th[t].trace, now)[id]
           /\ \A i \in 1..Len(metrics) : i <= Len(metrics') /\ metrics'[i] = metrics[i]
           /\ metrics' # metrics =>
                 \E t \in Threads :
                     /\ th[t].pc = "en_mwrite"
                     /\ metrics' = save_metrics(metrics, th[t].metrics_data, now) ]_vars

\* add_step on one stored trace is writing while end_trace on another stored
\* trace waits for the lock
C30_Witness ==
    \E t, u \in Threads :
        /\ th[t].pc = "as_write" /\ th[u].pc = "en_lock"
        /\ th[t].id # th[u].id
        /\ RowOf(th[t].id) # NoRow /\ RowOf(th[u].id) # NoRow

====
